---- MODULE Spec2Model ----
(***************************************************************************)
(* A model of the traefik-token-injector credential resolution engine:     *)
(* the TTL token cache (token_cache.go), the configuration loader's        *)
(* refresh-buffer default (config.go) and the auth handler                 *)
(* (auth_handler.go).                                                      *)
(*                                                                         *)
(* Go strings that the code inspects character by character are sequences  *)
(* of one-character strings; Go pointers to int, int64 and string are       *)
(* options: Nil for a nil pointer, Some(x) for a pointer to x.             *)
(***************************************************************************)
EXTENDS Integers, Sequences, FiniteSets, TLC

\* ------------------------------------------------------------------ bounds

\* The clock runs over 0..MaxTime (Unix seconds since the start of the run).
MaxTime == 3
\* Declared TTLs are nil or -1..MaxTtl.
MaxTtl == 2
\* Refresh buffers written in config.yml are -1..MaxBuffer.
MaxBuffer == 1

\* The longest credentialData of the enumerated BASIC declarations.
MaxPairs == 3

\* ----------------------------------------------------------------- options

Nil == <<>>
Some(x) == <<x>>
Deref(p) == p[1]

\* ------------------------------------------------------------------ config

\* config.go:69, the refresh buffer used when config.yml gives none (or 0).
DefaultTokenRefreshBuffer == 10

\* LoadGlobalConfig's treatment of token_refresh_buffer: yaml.Unmarshal stores
\* the integer of the file (0 when absent), and only 0 is replaced.
LoadTokenRefreshBuffer(raw) ==
    IF raw = 0 THEN DefaultTokenRefreshBuffer ELSE raw

\* The values token_refresh_buffer may have in config.yml.
RawBuffers == (-1)..MaxBuffer

\* The refresh buffers a caller of the cache passes: what the loader produces
\* for some config.yml, and the non-negative integers of the cache's contract.
SetBuffers == {LoadTokenRefreshBuffer(r) : r \in RawBuffers} \cup 0..MaxBuffer

\* ------------------------------------------------------------------- cache

ServiceIds == {"svc1", "svc2"}

\* Token strings.
TokA == <<"a">>
TokB == <<"b">>
CacheTokens == {TokA, TokB}

\* tokenTtl, a pointer to int
Ttls == {Nil} \cup {Some(n) : n \in (-1)..MaxTtl}

VARIABLES
    now,        \* time.Now().Unix()
    tokens,     \* TokenCache.tokens: map[string]*CachedToken
    got,        \* the triple the last Get returned, Nil once anything else happens
    lastSet,    \* history: per service id the arguments and time of the last Set
                \* not followed by a Delete or Clear of that id
    mu,         \* TokenCache.mu: who holds the RWMutex
    cl,         \* SpecLock: per client goroutine, the cache call it is making
    config,     \* AuthHandler.config: the GlobalConfig LoadGlobalConfig returned
    h           \* Spec: per request goroutine, its GetAuthToken call

cacheVars == <<now, tokens, got, lastSet>>
lockVars == <<mu, cl>>
handlerVars == <<config, h>>
vars == <<cacheVars, lockVars, handlerVars>>

\* CachedToken (request_builder.go:309)
CachedToken(token, expiresAt, refreshAt) ==
    [Token |-> token, ExpiresAt |-> expiresAt, RefreshAt |-> refreshAt]

\* CacheGet with the expiry test written "<" for "<=": the entry is still served
\* in the second it expires.
CacheGetLateExpiry(toks, t, serviceId, refreshBuffer) ==
    IF serviceId \notin DOMAIN toks
    THEN [token |-> <<>>, needsRefresh |-> FALSE, exists |-> FALSE]
    ELSE LET cached == toks[serviceId] IN
         IF cached.ExpiresAt # Nil /\ Deref(cached.ExpiresAt) < t
         THEN [token |-> <<>>, needsRefresh |-> FALSE, exists |-> FALSE]
         ELSE IF cached.RefreshAt # Nil /\ Deref(cached.RefreshAt) <= t
         THEN [token |-> cached.Token, needsRefresh |-> TRUE, exists |-> TRUE]
         ELSE [token |-> cached.Token, needsRefresh |-> FALSE, exists |-> TRUE]

\* CacheGet with the expiry test written "==" for "After": the entry is
\* missing only in the second it expires.
CacheGetExpiryInstant(toks, t, serviceId, refreshBuffer) ==
    IF serviceId \notin DOMAIN toks
    THEN [token |-> <<>>, needsRefresh |-> FALSE, exists |-> FALSE]
    ELSE LET cached == toks[serviceId] IN
         IF cached.ExpiresAt # Nil /\ Deref(cached.ExpiresAt) = t
         THEN [token |-> <<>>, needsRefresh |-> FALSE, exists |-> FALSE]
         ELSE IF cached.RefreshAt # Nil /\ Deref(cached.RefreshAt) <= t
         THEN [token |-> cached.Token, needsRefresh |-> TRUE, exists |-> TRUE]
         ELSE [token |-> cached.Token, needsRefresh |-> FALSE, exists |-> TRUE]

\* What TokenCache.Get returns for the map toks at clock time t.
CacheGet(toks, t, serviceId, refreshBuffer) ==
    IF serviceId \notin DOMAIN toks
    THEN [token |-> <<>>, needsRefresh |-> FALSE, exists |-> FALSE]
    ELSE LET cached == toks[serviceId] IN
         IF cached.ExpiresAt # Nil /\ Deref(cached.ExpiresAt) <= t
         THEN [token |-> <<>>, needsRefresh |-> FALSE, exists |-> FALSE]
         ELSE IF cached.RefreshAt # Nil /\ Deref(cached.RefreshAt) <= t
         THEN [token |-> cached.Token, needsRefresh |-> TRUE, exists |-> TRUE]
         ELSE [token |-> cached.Token, needsRefresh |-> FALSE, exists |-> TRUE]

\* NewCachedToken reading a nil ttl as 0 and lacking the "> 0" test: the entry
\* expires in the second it is stored.
NewCachedTokenNilAsZero(t, token, ttl, refreshBuffer) ==
    LET n == IF ttl = Nil THEN 0 ELSE Deref(ttl)
        expiresAt == t + n
        refreshAt == t + n - refreshBuffer
    IN  IF refreshAt > t
        THEN CachedToken(token, Some(expiresAt), Some(refreshAt))
        ELSE CachedToken(token, Some(expiresAt), Some(t))

\* NewCachedToken without the "refresh time is not in the past" clamp.
NewCachedTokenNoClamp(t, token, ttl, refreshBuffer) ==
    IF ttl # Nil /\ Deref(ttl) > 0
    THEN CachedToken(token, Some(t + Deref(ttl)),
                     Some(t + Deref(ttl) - refreshBuffer))
    ELSE CachedToken(token, Nil, Nil)

\* NewCachedToken with the test "ttl != nil" alone, without "*ttl > 0".
NewCachedTokenAnyTtl(t, token, ttl, refreshBuffer) ==
    IF ttl # Nil
    THEN LET expiresAt == t + Deref(ttl)
             refreshAt == t + Deref(ttl) - refreshBuffer
         IN  IF refreshAt > t
             THEN CachedToken(token, Some(expiresAt), Some(refreshAt))
             ELSE CachedToken(token, Some(expiresAt), Some(t))
    ELSE CachedToken(token, Nil, Nil)

\* The entry TokenCache.Set builds at clock time t.
NewCachedToken(t, token, ttl, refreshBuffer) ==
    IF ttl # Nil /\ Deref(ttl) > 0
    THEN LET expiresAt == t + Deref(ttl)
             refreshAt == t + Deref(ttl) - refreshBuffer
         IN  IF refreshAt > t
             THEN CachedToken(token, Some(expiresAt), Some(refreshAt))
             ELSE CachedToken(token, Some(expiresAt), Some(t))
    ELSE CachedToken(token, Nil, Nil)

\* CacheSet assigning a fresh one-entry map instead of storing into c.tokens.
CacheSetDropOthers(toks, t, serviceId, token, ttl, refreshBuffer) ==
    [k \in {serviceId} |-> NewCachedToken(t, token, ttl, refreshBuffer)]

\* CacheSet writing the token over an existing entry but keeping the expiry
\* and refresh times the entry had.
CacheSetKeepTimes(toks, t, serviceId, token, ttl, refreshBuffer) ==
    [k \in DOMAIN toks \cup {serviceId} |->
        IF k # serviceId THEN toks[k]
        ELSE IF k \in DOMAIN toks
        THEN CachedToken(token, toks[k].ExpiresAt, toks[k].RefreshAt)
        ELSE NewCachedToken(t, token, ttl, refreshBuffer)]

\* The map after TokenCache.Set.
CacheSet(toks, t, serviceId, token, ttl, refreshBuffer) ==
    [k \in DOMAIN toks \cup {serviceId} |->
        IF k = serviceId THEN NewCachedToken(t, token, ttl, refreshBuffer)
        ELSE toks[k]]

\* The map after TokenCache.Delete.
CacheDelete(toks, serviceId) ==
    [k \in DOMAIN toks \ {serviceId} |-> toks[k]]

\* The map after TokenCache.Clear, and of NewTokenCache.
EmptyCache == [k \in {} |-> Nil]

\* ------------------------------------------------- SpecCache: the cache API
\* The life of one cache entry, driven through the cache's exported methods
\* one call at a time: each method holds c.mu for its whole body, so a call is
\* one step. (SpecLock below runs the methods concurrently on several ids.)

EntryIds == {"svc1"}

NoSets == [id \in EntryIds |-> Nil]

\* What SpecCache leaves alone.
notCache == <<lockVars, handlerVars>>

InitCache ==
    /\ now = 0
    /\ tokens = EmptyCache
    /\ got = Nil
    /\ lastSet = NoSets
    /\ mu = Nil
    /\ cl = Nil
    /\ config = Nil
    /\ h = Nil

Tick ==
    /\ now < MaxTime
    /\ now' = now + 1
    /\ got' = Nil
    /\ UNCHANGED <<tokens, lastSet, notCache>>

Get(serviceId, refreshBuffer) ==
    /\ got' = Some([id |-> serviceId]
                   @@ CacheGet(tokens, now, serviceId, refreshBuffer))
    /\ UNCHANGED <<now, tokens, lastSet, notCache>>

Set(serviceId, token, ttl, refreshBuffer) ==
    /\ tokens' = CacheSet(tokens, now, serviceId, token, ttl, refreshBuffer)
    /\ lastSet' = [lastSet EXCEPT ![serviceId] =
                      Some([at |-> now, token |-> token, ttl |-> ttl,
                            buffer |-> refreshBuffer])]
    /\ got' = Nil
    /\ UNCHANGED <<now, notCache>>

Delete(serviceId) ==
    /\ tokens' = CacheDelete(tokens, serviceId)
    /\ lastSet' = [lastSet EXCEPT ![serviceId] = Nil]
    /\ got' = Nil
    /\ UNCHANGED <<now, notCache>>

Clear ==
    /\ tokens' = EmptyCache
    /\ lastSet' = NoSets
    /\ got' = Nil
    /\ UNCHANGED <<now, notCache>>

GetAny == \E id \in EntryIds, b \in SetBuffers : Get(id, b)
SetAny == \E id \in EntryIds, tok \in CacheTokens, ttl \in Ttls, b \in SetBuffers :
              Set(id, tok, ttl, b)
DeleteAny == \E id \in EntryIds : Delete(id)

NextCache == Tick \/ GetAny \/ SetAny \/ DeleteAny \/ Clear

SpecCache == InitCache /\ [][NextCache]_vars

\* The triples Get returns.
Fresh(token) == [token |-> token, needsRefresh |-> FALSE, exists |-> TRUE]
Stale(token) == [token |-> token, needsRefresh |-> TRUE, exists |-> TRUE]
Missing == [token |-> <<>>, needsRefresh |-> FALSE, exists |-> FALSE]

\* The last Get was of id, made d seconds after the Set that lastSet[id]
\* records, and returned r.
GotAfterSet(id, d, r) ==
    /\ got = Some([id |-> id] @@ r)
    /\ lastSet[id] # Nil
    /\ now - Deref(lastSet[id]).at = d

\* C1: after Set(id, token, ttl, buffer) with ttl > buffer >= 0 at time T and
\* no later Set/Delete/Clear of id, a Get at T+d returns (token, false, true)
\* when d < ttl-buffer, (token, true, true) when ttl-buffer <= d < ttl, and
\* ("", false, false) when d >= ttl.
C1_TtlLifecycle ==
    \A id \in EntryIds, b \in SetBuffers :
        lastSet[id] # Nil =>
            LET s == Deref(lastSet[id])
                d == now - s.at
                r == CacheGet(tokens, now, id, b)
            IN  (s.ttl # Nil /\ s.buffer >= 0 /\ Deref(s.ttl) > s.buffer) =>
                    /\ (d < Deref(s.ttl) - s.buffer => r = Fresh(s.token))
                    /\ (Deref(s.ttl) - s.buffer <= d /\ d < Deref(s.ttl)
                            => r = Stale(s.token))
                    /\ (d >= Deref(s.ttl) => r = Missing)
                    /\ (got # Nil /\ Deref(got).id = id
                            => got = Some([id |-> id] @@ r))

\* C1's case: a Set with ttl = 2 and buffer = 1, and a Get one second later
\* that reports the token as needing refresh.
C1_Witness ==
    \E id \in EntryIds :
        /\ GotAfterSet(id, 1, Stale(TokA))
        /\ Deref(lastSet[id]).ttl = Some(2)
        /\ Deref(lastSet[id]).buffer = 1

\* C2: after Set(id, token, nil, buffer), for any buffer, every later Get of id
\* returns (token, false, true) until a Set/Delete/Clear touches id.
C2_NilTtlNeverExpires ==
    \A id \in EntryIds, b \in SetBuffers :
        (lastSet[id] # Nil /\ Deref(lastSet[id]).ttl = Nil) =>
            /\ CacheGet(tokens, now, id, b) = Fresh(Deref(lastSet[id]).token)
            /\ (got # Nil /\ Deref(got).id = id
                    => got = Some([id |-> id] @@ Fresh(Deref(lastSet[id]).token)))

\* C2's case: a Get at the last second of the clock, after a Set with a nil
\* ttl and the default buffer made at second 0.
C2_Witness ==
    \E id \in EntryIds :
        /\ GotAfterSet(id, MaxTime, Fresh(TokB))
        /\ Deref(lastSet[id]).ttl = Nil
        /\ Deref(lastSet[id]).buffer = DefaultTokenRefreshBuffer

\* C8: in every cache state, every entry with both expiresAt and refreshAt has
\* refreshAt <= expiresAt, whatever ttl was given and whatever refresh buffer
\* the configuration loader let through.
C8_RefreshNotAfterExpiry ==
    \A id \in DOMAIN tokens :
        (tokens[id].ExpiresAt # Nil /\ tokens[id].RefreshAt # Nil) =>
            Deref(tokens[id].RefreshAt) <= Deref(tokens[id].ExpiresAt)

\* C9: after Set with a positive ttl and a buffer >= ttl, refreshAt is the time
\* of the Set, and every Get until expiry returns (token, true, true).
C9_BufferCoversTtl ==
    \A id \in EntryIds, b \in SetBuffers :
        lastSet[id] # Nil =>
            LET s == Deref(lastSet[id]) IN
            (s.ttl # Nil /\ Deref(s.ttl) > 0 /\ s.buffer >= Deref(s.ttl)) =>
                /\ id \in DOMAIN tokens
                /\ tokens[id].RefreshAt = Some(s.at)
                /\ (now < s.at + Deref(s.ttl)
                        => CacheGet(tokens, now, id, b) = Stale(s.token))

\* C9's case: a Get in the very second of a Set whose buffer (the default, 10)
\* exceeds its ttl (2) reports the token as needing refresh.
C9_Witness ==
    \E id \in EntryIds :
        /\ GotAfterSet(id, 0, Stale(TokA))
        /\ now > 0
        /\ Deref(lastSet[id]).ttl = Some(2)
        /\ Deref(lastSet[id]).buffer = DefaultTokenRefreshBuffer

\* ------------------------------------- SpecLock: the cache used concurrently
\* Client goroutines call Get, Set, Delete and Clear on one TokenCache at the
\* same time. Each method is two steps: taking c.mu (RLock for Get, Lock for
\* the others), and its body together with the deferred unlock that every
\* return path runs. The clock may advance between any two steps.

Clients == {"g1", "g2"}

\* The ttl and buffer arguments the clients pass.
LockTtls == {Nil, Some(1)}
LockBuffers == {DefaultTokenRefreshBuffer}

Unlocked == [readers |-> {}, writer |-> Nil]

\* Lock that looks only at the writer, as RLock does.
CanLockNoReaders == mu.writer = Nil

\* sync.RWMutex: RLock succeeds when no writer holds the mutex, Lock when
\* nobody does.
CanRLock == mu.writer = Nil
CanLock == mu.writer = Nil /\ mu.readers = {}

Idle(res) == [pc |-> "idle", op |-> "none", id |-> "", token |-> <<>>,
              ttl |-> Nil, buffer |-> 0, res |-> res]
Inside(op, id, token, ttl, buffer) ==
    [pc |-> "in", op |-> op, id |-> id, token |-> token, ttl |-> ttl,
     buffer |-> buffer, res |-> Nil]

InitLock ==
    /\ now = 0
    /\ tokens = EmptyCache
    /\ got = Nil
    /\ lastSet = [id \in ServiceIds |-> Nil]
    /\ mu = Unlocked
    /\ cl = [c \in Clients |-> Idle(Nil)]
    /\ config = Nil
    /\ h = Nil

TickLock ==
    /\ now < MaxTime
    /\ now' = now + 1
    /\ UNCHANGED <<tokens, got, lastSet, lockVars, handlerVars>>

\* token_cache.go:24
GetRLock(c, serviceId, refreshBuffer) ==
    /\ cl[c].pc = "idle"
    /\ CanRLock
    /\ mu' = [mu EXCEPT !.readers = @ \cup {c}]
    /\ cl' = [cl EXCEPT ![c] = Inside("Get", serviceId, <<>>, Nil, refreshBuffer)]
    /\ UNCHANGED <<cacheVars, handlerVars>>

\* token_cache.go:25-45
GetReturn(c) ==
    /\ cl[c].pc = "in" /\ cl[c].op = "Get"
    /\ cl' = [cl EXCEPT ![c] =
                Idle(Some([id |-> cl[c].id]
                          @@ CacheGet(tokens, now, cl[c].id, cl[c].buffer)))]
    /\ mu' = [mu EXCEPT !.readers = @ \ {c}]
    /\ UNCHANGED <<cacheVars, handlerVars>>

\* token_cache.go:49
SetLock(c, serviceId, token, ttl, refreshBuffer) ==
    /\ cl[c].pc = "idle"
    /\ CanLock
    /\ mu' = [mu EXCEPT !.writer = Some(c)]
    /\ cl' = [cl EXCEPT ![c] = Inside("Set", serviceId, token, ttl, refreshBuffer)]
    /\ UNCHANGED <<cacheVars, handlerVars>>

\* token_cache.go:50-75
SetReturn(c) ==
    /\ cl[c].pc = "in" /\ cl[c].op = "Set"
    /\ tokens' = CacheSet(tokens, now, cl[c].id, cl[c].token, cl[c].ttl,
                          cl[c].buffer)
    /\ lastSet' = [lastSet EXCEPT ![cl[c].id] =
                      Some([at |-> now, token |-> cl[c].token,
                            ttl |-> cl[c].ttl, buffer |-> cl[c].buffer])]
    /\ cl' = [cl EXCEPT ![c] = Idle(Nil)]
    /\ mu' = [mu EXCEPT !.writer = Nil]
    /\ UNCHANGED <<now, got, handlerVars>>

\* token_cache.go:79
DeleteLock(c, serviceId) ==
    /\ cl[c].pc = "idle"
    /\ CanLock
    /\ mu' = [mu EXCEPT !.writer = Some(c)]
    /\ cl' = [cl EXCEPT ![c] = Inside("Delete", serviceId, <<>>, Nil, 0)]
    /\ UNCHANGED <<cacheVars, handlerVars>>

\* token_cache.go:80-83
DeleteReturn(c) ==
    /\ cl[c].pc = "in" /\ cl[c].op = "Delete"
    /\ tokens' = CacheDelete(tokens, cl[c].id)
    /\ lastSet' = [lastSet EXCEPT ![cl[c].id] = Nil]
    /\ cl' = [cl EXCEPT ![c] = Idle(Nil)]
    /\ mu' = [mu EXCEPT !.writer = Nil]
    /\ UNCHANGED <<now, got, handlerVars>>

\* token_cache.go:87
ClearLock(c) ==
    /\ cl[c].pc = "idle"
    /\ CanLock
    /\ mu' = [mu EXCEPT !.writer = Some(c)]
    /\ cl' = [cl EXCEPT ![c] = Inside("Clear", "", <<>>, Nil, 0)]
    /\ UNCHANGED <<cacheVars, handlerVars>>

\* token_cache.go:88-91
ClearReturn(c) ==
    /\ cl[c].pc = "in" /\ cl[c].op = "Clear"
    /\ tokens' = EmptyCache
    /\ lastSet' = [id \in ServiceIds |-> Nil]
    /\ cl' = [cl EXCEPT ![c] = Idle(Nil)]
    /\ mu' = [mu EXCEPT !.writer = Nil]
    /\ UNCHANGED <<now, got, handlerVars>>

ClientGet == \E c \in Clients :
    \/ \E id \in ServiceIds, b \in LockBuffers : GetRLock(c, id, b)
    \/ GetReturn(c)
ClientSet == \E c \in Clients :
    \/ \E id \in ServiceIds, tok \in CacheTokens, ttl \in LockTtls,
          b \in LockBuffers : SetLock(c, id, tok, ttl, b)
    \/ SetReturn(c)
ClientDelete == \E c \in Clients :
    \/ \E id \in ServiceIds : DeleteLock(c, id)
    \/ DeleteReturn(c)
ClientClear == \E c \in Clients : ClearLock(c) \/ ClearReturn(c)

NextLock == TickLock \/ ClientGet \/ ClientSet \/ ClientDelete \/ ClientClear

SpecLock == InitLock /\ [][NextLock]_vars

\* The entry of a service id, Nil when the map has none.
EntryOf(id) == IF id \in DOMAIN tokens THEN Some(tokens[id]) ELSE Nil

\* C10: under any interleaving of concurrent cache calls, the entry of an
\* identifier changes only in the body of a Set or Delete of that identifier
\* (or of a Clear): a Set(id1, ...) never changes or removes the entry of
\* id2 # id1; and a Get(id2) that finds an entry returns the token of the last
\* Set made on id2, never one stored under another identifier.
C10_NoEntryBleed ==
    [][/\ \A id \in ServiceIds :
            EntryOf(id)' # EntryOf(id) =>
                \E c \in Clients :
                    /\ cl[c].pc = "in" /\ cl'[c].pc = "idle"
                    /\ \/ cl[c].op \in {"Set", "Delete"} /\ cl[c].id = id
                       \/ cl[c].op = "Clear"
       /\ \A c \in Clients :
            (cl[c].pc = "in" /\ cl[c].op = "Get" /\ cl'[c].pc = "idle") =>
                LET r == Deref(cl'[c].res) IN
                /\ r.id = cl[c].id
                /\ r.exists =>
                      /\ lastSet[r.id] # Nil
                      /\ r.token = Deref(lastSet[r.id]).token
                /\ ~r.exists => r.token = <<>>
      ]_vars

\* C10's case: both identifiers hold entries with different tokens, one
\* client has just read svc2's token while the other is inside Set(svc1, ...)
\* writing a token that differs from svc2's.
C10_Witness ==
    /\ "svc1" \in DOMAIN tokens /\ "svc2" \in DOMAIN tokens
    /\ tokens["svc1"].Token = TokA
    /\ tokens["svc2"].Token = TokB
    /\ cl["g1"].pc = "idle" /\ cl["g1"].res # Nil
    /\ Deref(cl["g1"].res).id = "svc2"
    /\ Deref(cl["g1"].res).token = TokB
    /\ cl["g2"].pc = "in" /\ cl["g2"].op = "Set" /\ cl["g2"].id = "svc1"
    /\ cl["g2"].token = TokA

\* The goroutines inside the critical section of the cache, by kind.
ReadersInside == {c \in Clients : cl[c].pc = "in" /\ cl[c].op = "Get"}
WritersInside ==
    {c \in Clients : cl[c].pc = "in" /\ cl[c].op \in {"Set", "Delete", "Clear"}}

\* C12: lock discipline of TokenCache. At most one writer (Set, Delete,
\* Clear) is inside the critical section, no reader (Get) is inside together
\* with a writer, and the mutex is held by exactly the goroutines inside: a
\* goroutine that has returned holds nothing, whatever path it returned by.
C12_LockDiscipline ==
    /\ Cardinality(WritersInside) <= 1
    /\ WritersInside # {} => ReadersInside = {}
    /\ mu.readers = ReadersInside
    /\ mu.writer = Nil <=> WritersInside = {}
    /\ mu.writer # Nil => WritersInside = {Deref(mu.writer)}
    /\ (\A c \in Clients : cl[c].pc = "idle") => mu = Unlocked

\* Two Gets are inside the critical section at once, after earlier writes.
C12_Witness ==
    /\ Cardinality(ReadersInside) = 2
    /\ tokens # EmptyCache

\* ------------------------------------------------------------ Go strings

\* strings.Split(s, sep) for a one-character separator: the pieces between
\* the separators; the empty string splits into one empty piece.
RECURSIVE SplitRec(_, _, _, _)
SplitRec(s, sep, pieces, cur) ==
    IF s = <<>> THEN Append(pieces, cur)
    ELSE IF Head(s) = sep THEN SplitRec(Tail(s), sep, Append(pieces, cur), <<>>)
    ELSE SplitRec(Tail(s), sep, pieces, Append(cur, Head(s)))

Split(s, sep) == SplitRec(s, sep, <<>>, <<>>)

\* ------------------------------------------------- generic (JSON) values
\* interface{} values as encoding/json produces and request_builder.go
\* builds them: a string, a map[string]interface{}, or something else.

JString(str) == [kind |-> "string", str |-> str]
JObject(fields) == [kind |-> "object", fields |-> fields]
JNumber == [kind |-> "number"]
JArray(items) == [kind |-> "array", items |-> items]

\* make(map[string]interface{})
EmptyMap == [k \in {} |-> Nil]

\* m[key] = value
Put(m, key, value) ==
    [k \in DOMAIN m \cup {key} |-> IF k = key THEN value ELSE m[k]]

\* --------------------------------------------------- request_builder.go

\* The walk of setNestedValue from the map `fields` along `parts`; the maps
\* are shared in the Go code, so the result is the root map after the walk.
RECURSIVE SetParts(_, _, _)
SetParts(fields, parts, value) ==
    LET key == Head(parts) IN
    IF Len(parts) = 1
    THEN [err |-> FALSE, fields |-> Put(fields, key, JString(value))]
    ELSE IF key \in DOMAIN fields
    THEN IF fields[key].kind = "object"
         THEN LET r == SetParts(fields[key].fields, Tail(parts), value) IN
              [err |-> r.err, fields |-> Put(fields, key, JObject(r.fields))]
         ELSE [err |-> TRUE, fields |-> fields]
    ELSE LET r == SetParts(EmptyMap, Tail(parts), value) IN
         [err |-> r.err, fields |-> Put(fields, key, JObject(r.fields))]

\* setNestedValue replacing a string that stands where the path needs an
\* object by a new object.
RECURSIVE SetPartsReplace(_, _, _)
SetPartsReplace(fields, parts, value) ==
    LET key == Head(parts) IN
    IF Len(parts) = 1
    THEN [err |-> FALSE, fields |-> Put(fields, key, JString(value))]
    ELSE LET below == IF key \in DOMAIN fields /\ fields[key].kind = "object"
                      THEN fields[key].fields ELSE EmptyMap
             r == SetPartsReplace(below, Tail(parts), value)
         IN  [err |-> r.err, fields |-> Put(fields, key, JObject(r.fields))]

setNestedValueReplace(obj, path, value) ==
    SetPartsReplace(obj, Split(path, "."), value)

\* setNestedValue binding the value to the whole dotted path as one key.
setNestedValueFlat(obj, path, value) ==
    [err |-> FALSE, fields |-> Put(obj, path, JString(value))]

setNestedValue(obj, path, value) ==
    LET parts == Split(path, ".") IN
    IF Len(parts) = 0
    THEN [err |-> TRUE, fields |-> obj]
    ELSE SetParts(obj, parts, value)

\* BuildNestedObject's loop over credentialData[i..], from the map `result`.
RECURSIVE BuildFrom(_, _)
BuildFrom(result, credentialData) ==
    IF credentialData = <<>> THEN [err |-> FALSE, obj |-> Some(result)]
    ELSE LET pair == Head(credentialData)
             r == setNestedValue(result, pair.Key, pair.Value)
         IN  IF r.err THEN [err |-> TRUE, obj |-> Nil]
             ELSE BuildFrom(r.fields, Tail(credentialData))

BuildNestedObject(credentialData) == BuildFrom(EmptyMap, credentialData)

\* findCredentialValue: the value of the first pair with the key, else "".
RECURSIVE findCredentialValue(_, _)
findCredentialValue(credentialData, key) ==
    IF credentialData = <<>> THEN <<>>
    ELSE IF Head(credentialData).Key = key THEN Head(credentialData).Value
    ELSE findCredentialValue(Tail(credentialData), key)

\* A built request that failed.
BuildError == [err |-> TRUE, method |-> <<>>, url |-> Nil, body |-> Nil,
               headers |-> EmptyMap]

ContentTypeHeader == <<"Content-Type">>

\* BuildRESTRequest's loop over endpoint.Parameters: req is the request so
\* far. The URL is kept in parts: the base and path template, the path
\* parameters substituted into it, and the query parameters (a Go map, whose
\* iteration order the code leaves open).
RECURSIVE ApplyParameters(_, _, _)
ApplyParameters(req, params, credentialData) ==
    IF params = <<>> THEN req
    ELSE LET param == Head(params)
             value == findCredentialValue(credentialData, param.Value)
         IN  IF value = <<>> /\ param.Required THEN BuildError
             ELSE ApplyParameters(
                    CASE param.Location = "header" ->
                           [req EXCEPT !.headers = Put(@, param.Value, value)]
                      [] param.Location = "query" ->
                           [req EXCEPT !.url =
                               Some([Deref(@) EXCEPT !.query =
                                        Put(@, param.Value, value)])]
                      [] param.Location = "path" ->
                           [req EXCEPT !.url =
                               Some([Deref(@) EXCEPT !.subst =
                                        Put(@, param.Value, value)])]
                      [] OTHER -> req,
                    Tail(params), credentialData)

BuildRESTRequest(endpoint, credentialData, baseURL) ==
    IF endpoint = Nil THEN BuildError
    ELSE
    LET ep == Deref(endpoint)
        url == [base |-> baseURL, path |-> ep.Path, subst |-> EmptyMap,
                query |-> EmptyMap]
        withBody == ep.RequestBody # Nil /\ Deref(ep.RequestBody).Required
        bodyObj == BuildNestedObject(credentialData)
    IN  IF withBody /\ bodyObj.err THEN BuildError
        ELSE ApplyParameters(
               [err |-> FALSE, method |-> ep.Method, url |-> Some(url),
                body |-> IF withBody THEN bodyObj.obj ELSE Nil,
                headers |-> IF withBody
                            THEN Put(EmptyMap, ContentTypeHeader,
                                     Deref(ep.RequestBody).ContentType)
                            ELSE EmptyMap],
               ep.Parameters, credentialData)

BuildGraphQLRequest(operation, credentialData) ==
    IF operation = Nil THEN [err |-> TRUE, query |-> <<>>, variables |-> Nil]
    ELSE LET op == Deref(operation)
             variables == BuildNestedObject(credentialData)
         IN  IF variables.err
             THEN [err |-> TRUE, query |-> <<>>, variables |-> Nil]
             ELSE [err |-> FALSE,
                   query |-> op.OperationType \o <<" ">> \o op.Name,
                   variables |-> variables.obj]

\* --------------------------------------------------- token_extractor.go

\* The walk of ExtractTokenFromResponse along pathParts from `current`:
\* Some(value reached), or Nil when a hop fails.
RECURSIVE Navigate(_, _)
Navigate(current, pathParts) ==
    IF pathParts = <<>> THEN Some(current)
    ELSE IF current.kind # "object" THEN Nil
    ELSE IF Head(pathParts) \notin DOMAIN current.fields THEN Nil
    ELSE Navigate(current.fields[Head(pathParts)], Tail(pathParts))

\* A response body is the document json.Unmarshal makes of it, or no JSON.
NotJSON == [valid |-> FALSE]
JSONBody(value) == [valid |-> TRUE, value |-> value]

TokenResult(token) == [token |-> token, err |-> FALSE]
TokenError == [token |-> <<>>, err |-> TRUE]

\* ExtractTokenFromResponse without the check of the empty token.
ExtractTokenAllowEmpty(responseBody, tokenLocation) ==
    IF tokenLocation = <<>> THEN TokenError
    ELSE IF ~responseBody.valid THEN TokenError
    ELSE LET reached == Navigate(responseBody.value, Split(tokenLocation, "."))
         IN  IF reached = Nil THEN TokenError
             ELSE IF Deref(reached).kind # "string" THEN TokenError
             ELSE TokenResult(Deref(reached).str)

ExtractTokenFromResponse(responseBody, tokenLocation) ==
    IF tokenLocation = <<>> THEN TokenError
    ELSE IF ~responseBody.valid THEN TokenError
    ELSE LET reached == Navigate(responseBody.value, Split(tokenLocation, "."))
         IN  IF reached = Nil THEN TokenError
             ELSE IF Deref(reached).kind # "string" THEN TokenError
             ELSE IF Deref(reached).str = <<>> THEN TokenError
             ELSE TokenResult(Deref(reached).str)

\* ------------------------------------------------------ auth_handler.go

\* What a handler returns: (token, nil) or ("", err).
Ok(token) == [token |-> token, err |-> Nil]
Fail(msg) == [token |-> <<>>, err |-> Some(msg)]

\* The byte values of the characters used in credentials.
Ascii ==
    ("a" :> 97) @@ ("b" :> 98) @@ ("p" :> 112) @@ ("u" :> 117) @@ ("x" :> 120)
    @@ ("y" :> 121) @@ (":" :> 58) @@ ("." :> 46)

Bytes(str) == [i \in 1..Len(str) |-> Ascii[str[i]]]

B64Alphabet ==
    << "A", "B", "C", "D", "E", "F", "G", "H", "I", "J", "K", "L", "M", "N", "O",
       "P", "Q", "R", "S", "T", "U", "V", "W", "X", "Y", "Z", "a", "b", "c", "d",
       "e", "f", "g", "h", "i", "j", "k", "l", "m", "n", "o", "p", "q", "r", "s",
       "t", "u", "v", "w", "x", "y", "z", "0", "1", "2", "3", "4", "5", "6", "7",
       "8", "9", "+", "/" >>

B64Digit(n) == B64Alphabet[(n % 64) + 1]

\* base64.StdEncoding.EncodeToString: three bytes to four digits, "=" padded.
RECURSIVE EncodeToString(_)
EncodeToString(bs) ==
    IF bs = <<>> THEN <<>>
    ELSE IF Len(bs) = 1
    THEN LET n == bs[1] * 65536 IN
         <<B64Digit(n \div 262144), B64Digit(n \div 4096), "=", "=">>
    ELSE IF Len(bs) = 2
    THEN LET n == bs[1] * 65536 + bs[2] * 256 IN
         <<B64Digit(n \div 262144), B64Digit(n \div 4096), B64Digit(n \div 64),
           "=">>
    ELSE LET n == bs[1] * 65536 + bs[2] * 256 + bs[3] IN
         <<B64Digit(n \div 262144), B64Digit(n \div 4096), B64Digit(n \div 64),
           B64Digit(n)>> \o EncodeToString(SubSeq(bs, 4, Len(bs)))

KeyUsername == <<"u", "s", "e", "r", "n", "a", "m", "e">>
KeyUser == <<"u", "s", "e", "r">>
KeyPassword == <<"p", "a", "s", "s", "w", "o", "r", "d">>
KeyPass == <<"p", "a", "s", "s">>
BasicPrefix == <<"B", "a", "s", "i", "c", " ">>

\* handleBasicAuth's loop: found is (username, password) so far.
RECURSIVE ScanBasic(_, _)
ScanBasic(found, credentialData) ==
    IF credentialData = <<>> THEN found
    ELSE LET pair == Head(credentialData)
             u == IF pair.Key = KeyUsername \/ pair.Key = KeyUser
                  THEN pair.Value ELSE found.username
             pw == IF pair.Key = KeyPassword \/ pair.Key = KeyPass
                   THEN pair.Value ELSE found.password
         IN  ScanBasic([username |-> u, password |-> pw], Tail(credentialData))

\* handleBasicAuth without the test for an empty username or password.
handleBasicAuthNoCheck(credentials) ==
    LET found == ScanBasic([username |-> <<>>, password |-> <<>>],
                           credentials.CredentialData)
    IN  Ok(BasicPrefix
           \o EncodeToString(Bytes(found.username \o <<":">>
                                   \o found.password)))

handleBasicAuth(credentials) ==
    LET found == ScanBasic([username |-> <<>>, password |-> <<>>],
                           credentials.CredentialData)
    IN  IF found.username = <<>> \/ found.password = <<>>
        THEN Fail("username or password not found in credential data")
        ELSE Ok(BasicPrefix
                \o EncodeToString(Bytes(found.username \o <<":">>
                                        \o found.password)))

\* handleAPITokenAuth without the test for an empty key.
handleAPITokenAuthAny(credentials) == Ok(credentials.ApiKey)

handleAPITokenAuth(credentials) ==
    IF credentials.ApiKey = <<>> THEN Fail("apiKey is empty")
    ELSE Ok(credentials.ApiKey)

\* net/http: NewRequest rejects a method that is not a token (here: one with
\* a space in it), and the default transport of &http.Client{} fails, with no
\* connection made, for a URL without an http or https scheme.
ValidMethod(method) == \A i \in 1..Len(method) : method[i] # " "
SupportedScheme(url) ==
    Len(url.base \o url.path) > 0
    /\ Head(url.base \o url.path) \in {"http://", "https://"}

\* http.StatusOK, http.StatusCreated
StatusOK == 200
StatusCreated == 201

\* callRESTAuthEndpoint up to h.client.Do: the failure, or the request sent.
RESTRequest(endpoint, credentials) ==
    LET req == BuildRESTRequest(endpoint, credentials.CredentialData, <<>>) IN
    IF req.err THEN [err |-> Some("failed to build REST request"), url |-> Nil]
    ELSE IF ~ValidMethod(req.method)
    THEN [err |-> Some("failed to create HTTP request"), url |-> Nil]
    ELSE [err |-> Nil, url |-> req.url]

\* callGraphQLAuthEndpoint up to h.client.Do; the request goes to graphqlURL,
\* which is "".
GraphQLRequest(operation, credentials) ==
    LET req == BuildGraphQLRequest(operation, credentials.CredentialData) IN
    IF req.err THEN [err |-> Some("failed to build GraphQL request"), url |-> Nil]
    ELSE [err |-> Nil,
          url |-> Some([base |-> <<>>, path |-> <<>>, subst |-> EmptyMap,
                        query |-> EmptyMap])]

\* What h.client.Do and io.ReadAll give.
TransportError == [kind |-> "transport"]
ReadError == [kind |-> "read"]
Response(status, body) == [kind |-> "response", status |-> status, body |-> body]

\* callRESTAuthEndpoint from h.client.Do on.
RESTResult(outcome, tokenLocation) ==
    IF outcome.kind = "transport" THEN Fail("failed to execute request")
    ELSE IF outcome.kind = "read" THEN Fail("failed to read response")
    ELSE IF outcome.status # StatusOK /\ outcome.status # StatusCreated
    THEN Fail("authentication endpoint returned status")
    ELSE LET r == ExtractTokenFromResponse(outcome.body, tokenLocation) IN
         IF r.err THEN Fail("failed to extract token") ELSE Ok(r.token)

\* callGraphQLAuthEndpoint from h.client.Do on.
GraphQLResult(outcome, tokenLocation) ==
    IF outcome.kind = "transport" THEN Fail("failed to execute request")
    ELSE IF outcome.kind = "read" THEN Fail("failed to read response")
    ELSE IF outcome.status # StatusOK
    THEN Fail("GraphQL endpoint returned status")
    ELSE LET r == ExtractTokenFromResponse(outcome.body, tokenLocation) IN
         IF r.err THEN Fail("failed to extract token") ELSE Ok(r.token)

\* ---------------------------------------------- Spec: the auth handler
\* Request goroutines call GetAuthToken on the AuthHandler of one middleware
\* instance: its cache starts empty and every call is made with the
\* instance's one service id (middleware.go:46-49, 83). A call is one step up
\* to its first wait: a LOGIN that has to store the declared token, or that
\* has sent the auth request, continues in a second step, and the clock may
\* advance in between.

Requests == {"r1"}

\* t.config.ServiceId
InstanceIds == {"svc1"}

\* The state of a request goroutine: where it is (idle, set_declared: before
\* the Set of line 90, calling: inside h.client.Do, done), the arguments of
\* its call that the rest of the call uses, whether it has invoked
\* h.client.Do, and what GetAuthToken returned.
NoCall == [pc |-> "idle", authType |-> "", id |-> "", declared |-> Nil,
           ttl |-> Nil, kind |-> "", url |-> Nil, loc |-> <<>>,
           sent |-> FALSE, ret |-> Nil]

Called(serviceId, credentials) ==
    [NoCall EXCEPT !.authType = credentials.AuthType, !.id = serviceId,
                   !.declared = credentials.Token,
                   !.ttl = credentials.TokenTtl]

Done(call, result) ==
    [call EXCEPT !.pc = "done", !.ttl = Nil, !.kind = "", !.url = Nil,
                 !.loc = <<>>, !.ret = Some(result)]

Calling(call, kind, url, tokenLocation) ==
    [call EXCEPT !.pc = "calling", !.declared = Nil, !.kind = kind,
                 !.url = url, !.loc = tokenLocation, !.sent = TRUE]

\* FetchToken choosing the call by the kind of the endpoint node, whatever
\* endpointType says.
FetchTokenByNode(call, credentials) ==
    IF credentials.EndpointData = Nil
       \/ Len(Deref(credentials.EndpointData)) = 0
    THEN Done(call, Fail("no authentication endpoint configured"))
    ELSE
    LET endpointNode == Deref(credentials.EndpointData)[1] IN
    IF endpointNode.EndpointType # Nil
    THEN LET req == RESTRequest(endpointNode.EndpointType, credentials) IN
         IF req.err # Nil THEN Done(call, Fail(Deref(req.err)))
         ELSE Calling(call, "REST", req.url, credentials.TokenLocation)
    ELSE IF endpointNode.GqlOperationType # Nil
    THEN LET req == GraphQLRequest(endpointNode.GqlOperationType, credentials) IN
         IF req.err # Nil THEN Done(call, Fail(Deref(req.err)))
         ELSE Calling(call, "GRAPHQL", req.url, credentials.TokenLocation)
    ELSE Done(call, Fail("invalid endpoint configuration"))

\* handleLoginAuth from line 95 on, up to h.client.Do: the endpoint is
\* looked up and the request built and sent, or the call fails.
FetchToken(call, credentials) ==
    IF credentials.EndpointData = Nil
       \/ Len(Deref(credentials.EndpointData)) = 0
    THEN Done(call, Fail("no authentication endpoint configured"))
    ELSE
    LET endpointNode == Deref(credentials.EndpointData)[1] IN
    IF credentials.EndpointType = "REST" /\ endpointNode.EndpointType # Nil
    THEN LET req == RESTRequest(endpointNode.EndpointType, credentials) IN
         IF req.err # Nil THEN Done(call, Fail(Deref(req.err)))
         ELSE Calling(call, "REST", req.url, credentials.TokenLocation)
    ELSE IF credentials.EndpointType = "GRAPHQL"
            /\ endpointNode.GqlOperationType # Nil
    THEN LET req == GraphQLRequest(endpointNode.GqlOperationType, credentials) IN
         IF req.err # Nil THEN Done(call, Fail(Deref(req.err)))
         ELSE Calling(call, "GRAPHQL", req.url, credentials.TokenLocation)
    ELSE Done(call, Fail("invalid endpoint configuration"))

\* UseDeclaredOrFetch using the pre-populated token only while the cache has
\* no entry of the service, and fetching once an entry has gone stale.
UseDeclaredOnce(call, credentials) ==
    IF /\ credentials.Token # Nil /\ Deref(credentials.Token) # <<>>
       /\ call.id \notin DOMAIN tokens
    THEN IF config.CacheEnabled THEN [call EXCEPT !.pc = "set_declared"]
         ELSE Done(call, Ok(Deref(credentials.Token)))
    ELSE FetchToken(call, credentials)

\* handleLoginAuth lines 86-93: the pre-populated token is used, or the
\* token is fetched.
UseDeclaredOrFetch(call, credentials) ==
    IF credentials.Token # Nil /\ Deref(credentials.Token) # <<>>
    THEN IF config.CacheEnabled THEN [call EXCEPT !.pc = "set_declared"]
         ELSE Done(call, Ok(Deref(credentials.Token)))
    ELSE FetchToken(call, credentials)

\* handleLoginAuth with the pre-populated token tested before the cache.
handleLoginAuthDeclaredFirst(serviceId, credentials) ==
    LET call == Called(serviceId, credentials)
        cached == CacheGet(tokens, now, serviceId, config.TokenRefreshBuffer)
    IN  IF credentials.Token # Nil /\ Deref(credentials.Token) # <<>>
        THEN UseDeclaredOrFetch(call, credentials)
        ELSE IF config.CacheEnabled /\ cached.exists /\ ~cached.needsRefresh
        THEN Done(call, Ok(cached.token))
        ELSE FetchToken(call, credentials)

\* handleLoginAuth serving the cached token whenever one exists, refresh
\* needed or not.
handleLoginAuthIgnoreRefresh(serviceId, credentials) ==
    LET call == Called(serviceId, credentials)
        cached == CacheGet(tokens, now, serviceId, config.TokenRefreshBuffer)
    IN  IF config.CacheEnabled /\ cached.exists
        THEN Done(call, Ok(cached.token))
        ELSE UseDeclaredOrFetch(call, credentials)

\* handleLoginAuth (auth_handler.go:77-113) up to its first wait: the state
\* of the goroutine after it.
handleLoginAuth(serviceId, credentials) ==
    LET call == Called(serviceId, credentials)
        cached == CacheGet(tokens, now, serviceId, config.TokenRefreshBuffer)
    IN  IF config.CacheEnabled /\ cached.exists /\ ~cached.needsRefresh
        THEN Done(call, Ok(cached.token))
        ELSE UseDeclaredOrFetch(call, credentials)

\* Dispatch treating an auth type it does not know as NONE.
DispatchDefaultNone(serviceId, credentials) ==
    IF credentials = Nil
    THEN Done([NoCall EXCEPT !.id = serviceId], Fail("credentials are nil"))
    ELSE LET c == Deref(credentials) IN
         CASE c.AuthType = "BASIC" ->
                Done(Called(serviceId, c), handleBasicAuth(c))
           [] c.AuthType = "LOGIN" -> handleLoginAuth(serviceId, c)
           [] c.AuthType = "APITOKEN" ->
                Done(Called(serviceId, c), handleAPITokenAuth(c))
           [] OTHER -> Done(Called(serviceId, c), Ok(<<>>))

\* Dispatch answering NONE from the cache when it holds a usable entry.
DispatchNoneFromCache(serviceId, credentials) ==
    IF credentials = Nil
    THEN Done([NoCall EXCEPT !.id = serviceId], Fail("credentials are nil"))
    ELSE LET c == Deref(credentials)
             cached == CacheGet(tokens, now, serviceId, config.TokenRefreshBuffer)
         IN
         CASE c.AuthType = "BASIC" ->
                Done(Called(serviceId, c), handleBasicAuth(c))
           [] c.AuthType = "LOGIN" -> handleLoginAuth(serviceId, c)
           [] c.AuthType = "APITOKEN" ->
                Done(Called(serviceId, c), handleAPITokenAuth(c))
           [] c.AuthType = "NONE" ->
                Done(Called(serviceId, c),
                     IF cached.exists /\ ~cached.needsRefresh
                     THEN Ok(cached.token) ELSE Ok(<<>>))
           [] OTHER -> Done(Called(serviceId, c), Fail("unsupported auth type"))

\* GetAuthToken (auth_handler.go:29-50) up to its first wait.
Dispatch(serviceId, credentials) ==
    IF credentials = Nil
    THEN Done([NoCall EXCEPT !.id = serviceId], Fail("credentials are nil"))
    ELSE LET c == Deref(credentials) IN
         CASE c.AuthType = "BASIC" ->
                Done(Called(serviceId, c), handleBasicAuth(c))
           [] c.AuthType = "LOGIN" -> handleLoginAuth(serviceId, c)
           [] c.AuthType = "APITOKEN" ->
                Done(Called(serviceId, c), handleAPITokenAuth(c))
           [] c.AuthType = "NONE" -> Done(Called(serviceId, c), Ok(<<>>))
           [] OTHER -> Done(Called(serviceId, c), Fail("unsupported auth type"))

\* LoginResult falling back on the cached token when the call fails.
LoginResultBestGuess(call, outcome) ==
    LET r == IF call.kind = "REST" THEN RESTResult(outcome, call.loc)
             ELSE GraphQLResult(outcome, call.loc)
    IN  IF r.err # Nil /\ call.id \in DOMAIN tokens
        THEN [token |-> tokens[call.id].Token, err |-> r.err]
        ELSE r

\* The token and error a LOGIN call returns once h.client.Do has returned
\* `outcome` (auth_handler.go:108-117).
LoginResult(call, outcome) ==
    IF call.kind = "REST" THEN RESTResult(outcome, call.loc)
    ELSE GraphQLResult(outcome, call.loc)

\* StoreToken passing no ttl to the cache.
StoreTokenNoTtl(call, token) ==
    IF config.CacheEnabled
    THEN CacheSet(tokens, now, call.id, token, Nil, config.TokenRefreshBuffer)
    ELSE tokens

\* StoreToken without the test of config.CacheEnabled.
StoreTokenAlways(call, token) ==
    CacheSet(tokens, now, call.id, token, call.ttl, config.TokenRefreshBuffer)

\* h.cache.Set(serviceId, token, credentials.TokenTtl, buffer) when caching
\* is enabled (auth_handler.go:89-91 and 120-122).
StoreToken(call, token) ==
    IF config.CacheEnabled
    THEN CacheSet(tokens, now, call.id, token, call.ttl,
                  config.TokenRefreshBuffer)
    ELSE tokens

\* CacheAfterLogin dropping the entry of the service when the call failed.
CacheAfterLoginEvict(call, result) ==
    IF result.err = Nil THEN StoreToken(call, result.token)
    ELSE CacheDelete(tokens, call.id)

\* The cache after handleLoginAuth's lines 115-122: written on success only.
CacheAfterLogin(call, result) ==
    IF result.err = Nil THEN StoreToken(call, result.token) ELSE tokens

\* ---- the declarations and responses the requests are made with

Pair(key, value) == [Key |-> key, Value |-> value]
LoginPairs == << Pair(<<"u", ".", "a">>, <<"x">>), Pair(<<"u", ".", "b">>, <<"y">>) >>
ConflictPairs == << Pair(<<"a">>, <<"x">>), Pair(<<"a", ".", "b">>, <<"y">>) >>
BasicPairs == << Pair(KeyUsername, <<"u">>), Pair(KeyPassword, <<"p">>) >>
BasicNoPassword == << Pair(KeyUser, <<"u">>) >>

MethodPost == <<"P", "O", "S", "T">>
JSONContent == [ContentType |-> <<"application/json">>, Required |-> TRUE]

\* EndpointType declarations: a usable one, one whose path is no absolute
\* URL, one with a malformed method, and one with a required query parameter
\* "a" and no body.
GoodEndpoint ==
    [Method |-> MethodPost, Path |-> <<"https://", "idp", "/login">>,
     Parameters |-> <<>>, RequestBody |-> Some(JSONContent)]
RelativeEndpoint == [GoodEndpoint EXCEPT !.Path = <<"/login">>]
BadMethodEndpoint == [GoodEndpoint EXCEPT !.Method = <<"P", " ", "T">>]
ParamEndpoint ==
    [GoodEndpoint EXCEPT !.RequestBody = Nil,
        !.Parameters = << [Value |-> <<"a">>, Required |-> TRUE,
                           Location |-> "query"] >>]
RestEndpoints == {GoodEndpoint, RelativeEndpoint, BadMethodEndpoint, ParamEndpoint}

LoginOperation == [Name |-> <<"login">>, OperationType |-> <<"mutation">>]

\* EndpointNode, the REST/GraphQL union.
RestNode(endpoint) == [EndpointType |-> Some(endpoint), GqlOperationType |-> Nil]
GqlNode == [EndpointType |-> Nil, GqlOperationType |-> Some(LoginOperation)]
EmptyNode == [EndpointType |-> Nil, GqlOperationType |-> Nil]

\* credentials.EndpointData: nil, no edges, or one edge.
EndpointDatas ==
    {Nil, Some(<<>>), Some(<<GqlNode>>), Some(<<EmptyNode>>)}
    \cup {Some(<<RestNode(e)>>) : e \in RestEndpoints}

TokD == <<"d">>
LocAB == <<"a", ".", "b">>

Credentials(authType, endpointType, data, token, loc, ttl, apiKey, endpointData) ==
    [AuthType |-> authType, EndpointType |-> endpointType,
     CredentialData |-> data, Token |-> token, TokenLocation |-> loc,
     TokenTtl |-> ttl, ApiKey |-> apiKey, EndpointData |-> endpointData]

Login(endpointType, data, token, loc, ttl, endpointData) ==
    Credentials("LOGIN", endpointType, data, token, loc, ttl, <<>>, endpointData)

\* LOGIN declarations: a well-formed REST or GraphQL login with every ttl;
\* a pre-populated token with every ttl, with and without an endpoint; every
\* endpointType with every endpointData; and the credential data and token
\* locations that make the request or the extraction fail.
LoginDeclarations ==
    {Login(et, LoginPairs, tok, LocAB, ttl,
           IF et = "REST" THEN Some(<<RestNode(GoodEndpoint)>>)
           ELSE Some(<<GqlNode>>)) :
        et \in {"REST", "GRAPHQL"}, tok \in {Nil, Some(<<>>)}, ttl \in Ttls}
    \cup {Login("REST", LoginPairs, Some(TokD), LocAB, ttl, ed) :
            ttl \in Ttls, ed \in {Nil, Some(<<RestNode(GoodEndpoint)>>)}}
    \cup {Login(et, LoginPairs, Nil, LocAB, Some(MaxTtl), ed) :
            et \in {"REST", "GRAPHQL", "SOAP"}, ed \in EndpointDatas}
    \cup {Login("REST", data, Nil, loc, Some(MaxTtl), Some(<<RestNode(e)>>)) :
            data \in {LoginPairs, ConflictPairs}, loc \in {<<>>, LocAB, <<"a">>},
            e \in {GoodEndpoint, ParamEndpoint}}
    \cup {Login("GRAPHQL", ConflictPairs, Nil, LocAB, Nil, Some(<<GqlNode>>))}

OtherDeclarations ==
    {Credentials("BASIC", "", data, Nil, <<>>, Nil, <<>>, Nil) :
        data \in {BasicPairs, BasicNoPassword, <<>>}}
    \cup {Credentials("APITOKEN", "", <<>>, Nil, <<>>, Nil, key, Nil) :
            key \in {<<>>, <<"k">>}}
    \cup {Credentials(t, "REST", LoginPairs, Some(TokD), LocAB, Some(1), <<"k">>,
                      Some(<<RestNode(GoodEndpoint)>>)) :
            t \in {"NONE", "OAUTH"}}

Declarations == {Nil} \cup {Some(c) : c \in LoginDeclarations \cup OtherDeclarations}

TokF == <<"f">>
TokG == <<"g">>

\* {"a": {"b": v}}
DocAB(v) == JSONBody(JObject(Put(EmptyMap, <<"a">>,
                                 JObject(Put(EmptyMap, <<"b">>, v)))))

\* Response bodies: a token at a.b, an empty string there, a number there,
\* a string or an array at a, an empty object, and no JSON at all.
Bodies ==
    {DocAB(JString(TokF)), DocAB(JString(TokG)), DocAB(JString(<<>>)),
     DocAB(JNumber), JSONBody(JObject(Put(EmptyMap, <<"a">>, JString(TokF)))),
     JSONBody(JObject(Put(EmptyMap, <<"a">>, JArray(<<JString(TokF)>>)))),
     JSONBody(JObject(EmptyMap)), NotJSON}

Statuses == {StatusOK, StatusCreated, 204, 401}

\* What h.client.Do may return for the request of a goroutine: a URL without
\* a supported scheme fails in the client, anything else is up to the network
\* and the auth server.
Outcomes(call) ==
    IF SupportedScheme(Deref(call.url))
    THEN {TransportError, ReadError}
         \cup {Response(st, b) : st \in Statuses, b \in Bodies}
    ELSE {TransportError}

\* ---- the specification

Configs ==
    {[CacheEnabled |-> e, TokenRefreshBuffer |-> LoadTokenRefreshBuffer(raw)] :
        e \in BOOLEAN, raw \in RawBuffers}

Init ==
    /\ now = 0
    /\ tokens = EmptyCache
    /\ got = Nil
    /\ lastSet = Nil
    /\ mu = Nil
    /\ cl = Nil
    /\ config \in Configs
    /\ h = [p \in Requests |-> NoCall]

TickHandler ==
    /\ now < MaxTime
    /\ now' = now + 1
    /\ UNCHANGED <<tokens, got, lastSet, lockVars, handlerVars>>

\* A goroutine calls GetAuthToken and runs to its return or first wait.
GetAuthToken(p, serviceId, credentials) ==
    /\ h[p].pc = "idle"
    /\ h' = [h EXCEPT ![p] = Dispatch(serviceId, credentials)]
    /\ UNCHANGED <<cacheVars, lockVars, config>>

\* auth_handler.go:89-92: the declared token is stored and returned.
StoreDeclared(p) ==
    /\ h[p].pc = "set_declared"
    /\ tokens' = StoreToken(h[p], Deref(h[p].declared))
    /\ h' = [h EXCEPT ![p] = Done(h[p], Ok(Deref(h[p].declared)))]
    /\ UNCHANGED <<now, got, lastSet, lockVars, config>>

\* auth_handler.go:115-124: h.client.Do has returned; the token is extracted,
\* stored and returned, or the error is.
Respond(p, outcome) ==
    /\ h[p].pc = "calling"
    /\ LET result == LoginResult(h[p], outcome) IN
        /\ tokens' = CacheAfterLogin(h[p], result)
        /\ h' = [h EXCEPT ![p] = Done(h[p], result)]
    /\ UNCHANGED <<now, got, lastSet, lockVars, config>>

\* The caller (ServeHTTP) takes what GetAuthToken returned.
Return(p) ==
    /\ h[p].pc = "done"
    /\ h' = [h EXCEPT ![p] = NoCall]
    /\ UNCHANGED <<cacheVars, lockVars, config>>

Resolve == \E p \in Requests, id \in InstanceIds, c \in Declarations :
               GetAuthToken(p, id, c)
Store == \E p \in Requests : StoreDeclared(p)
Answer == \E p \in Requests :
              /\ h[p].pc = "calling"
              /\ \E outcome \in Outcomes(h[p]) : Respond(p, outcome)

Finish == \E p \in Requests : Return(p)

Next == TickHandler \/ Resolve \/ Store \/ Answer \/ Finish

Spec == Init /\ [][Next]_vars


\* The entry of `id` as a resolution sees it at the current time.
HasEntry(id) == id \in DOMAIN tokens

Expired(id) ==
    /\ HasEntry(id)
    /\ tokens[id].ExpiresAt # Nil
    /\ Deref(tokens[id].ExpiresAt) <= now

RefreshDue(id) ==
    /\ HasEntry(id)
    /\ tokens[id].RefreshAt # Nil
    /\ Deref(tokens[id].RefreshAt) <= now

\* A usable cache hit: present, not expired, refresh not yet due.
FreshEntry(id) == HasEntry(id) /\ ~Expired(id) /\ ~RefreshDue(id)

\* Present and not expired, but in its refresh window.
StaleEntry(id) == HasEntry(id) /\ ~Expired(id) /\ RefreshDue(id)

\* The TTL bookkeeping of an entry written at the current time.
Bookkept(entry, token, ttl) ==
    /\ entry.Token = token
    /\ IF ttl # Nil /\ Deref(ttl) > 0
       THEN /\ entry.ExpiresAt = Some(now + Deref(ttl))
            /\ LET early == now + Deref(ttl) - config.TokenRefreshBuffer IN
               entry.RefreshAt = Some(IF early > now THEN early ELSE now)
       ELSE entry.ExpiresAt = Nil /\ entry.RefreshAt = Nil

NoDeclared(declared) == declared = Nil \/ Deref(declared) = <<>>

\* Steps of one resolution.
Enters(p) == h[p].pc = "idle" /\ h'[p].pc # "idle"
Completes(p) == h[p].pc # "done" /\ h'[p].pc = "done"
Returned(p) == Deref(h[p].ret)

\* The failures of a LOGIN resolution before any request is sent.
PreCallFailures ==
    {"no authentication endpoint configured", "invalid endpoint configuration",
     "failed to build REST request", "failed to build GraphQL request",
     "failed to create HTTP request"}

\* C3: a LOGIN resolution with caching enabled that finds an entry which
\* exists and does not need refresh returns exactly the cached token, sends
\* no request and writes nothing to the cache, whatever else is declared.
C3_CacheHit ==
    [][\A p \in Requests :
        (/\ Enters(p)
         /\ h'[p].authType = "LOGIN"
         /\ config.CacheEnabled
         /\ FreshEntry(h'[p].id))
        => /\ h'[p].pc = "done"
           /\ h'[p].ret = Some(Ok(tokens[h'[p].id].Token))
           /\ ~h'[p].sent
           /\ tokens' = tokens]_vars

\* A hit served although the declaration carries another, pre-populated token.
C3_Witness ==
    \E p \in Requests :
        /\ h[p].pc = "done" /\ h[p].authType = "LOGIN" /\ ~h[p].sent
        /\ config.CacheEnabled
        /\ h[p].declared = Some(TokD)
        /\ FreshEntry(h[p].id)
        /\ tokens[h[p].id].Token = TokF
        /\ h[p].ret = Some(Ok(TokF))

\* The part of C4 on the call: a LOGIN resolution with caching enabled and
\* no pre-populated token that finds no entry, an expired entry or an entry
\* in its refresh window serves nothing from the cache: it sends the
\* authentication request, or fails before sending with the cache untouched.
RefreshAhead(p) ==
    (/\ Enters(p)
     /\ h'[p].authType = "LOGIN"
     /\ config.CacheEnabled
     /\ NoDeclared(h'[p].declared)
     /\ ~FreshEntry(h'[p].id))
    => /\ tokens' = tokens
       /\ \/ h'[p].pc = "calling" /\ h'[p].sent
          \/ /\ h'[p].pc = "done" /\ ~h'[p].sent
             /\ Returned(p)'.err \in {Some(m) : m \in PreCallFailures}
             /\ Returned(p)'.token = <<>>

\* The part of C4 on success: the extracted token is returned and replaces
\* the entry of the service, with fresh TTL bookkeeping.
Replaces(p) ==
    (/\ h[p].pc = "calling" /\ h'[p].pc = "done"
     /\ config.CacheEnabled
     /\ Returned(p)'.err = Nil)
    => /\ Returned(p)'.token # <<>>
       /\ HasEntry(h[p].id)'
       /\ Bookkept(tokens'[h[p].id], Returned(p)'.token, h[p].ttl)
       /\ \A id \in DOMAIN tokens \ {h[p].id} :
              id \in DOMAIN tokens' /\ tokens'[id] = tokens[id]

Refreshed(p) ==
    /\ h[p].pc = "calling" /\ h'[p].pc = "done"
    /\ config.CacheEnabled
    /\ Returned(p)'.err = Nil

\* C4 as stated: after a successful refresh an immediately following
\* resolution is a cache hit on the new token.
C4_HitFollowsRefresh ==
    [][\A p \in Requests :
        /\ RefreshAhead(p)
        /\ Replaces(p)
        /\ Refreshed(p) => FreshEntry(h[p].id)']_vars

\* C4, amended: after a successful refresh an immediately following
\* resolution is a cache hit on the new token exactly when the declared
\* tokenTtl is absent, not positive, or greater than the refresh buffer;
\* with 0 < tokenTtl <= buffer the new entry is already due for refresh.
C4_RefreshAhead ==
    [][\A p \in Requests :
        /\ RefreshAhead(p)
        /\ Replaces(p)
        /\ Refreshed(p) =>
             (FreshEntry(h[p].id)' <=>
                 \/ h[p].ttl = Nil
                 \/ Deref(h[p].ttl) <= 0
                 \/ Deref(h[p].ttl) > config.TokenRefreshBuffer)]_vars

\* A refresh made at time 2 or later has stored the new token, and the new
\* entry is already due for refresh because tokenTtl <= buffer.
C4_Witness ==
    \E p \in Requests :
        /\ h[p].pc = "done" /\ h[p].authType = "LOGIN" /\ h[p].sent
        /\ config.CacheEnabled
        /\ now >= 2
        /\ h[p].ret = Some(Ok(TokG))
        /\ HasEntry(h[p].id)
        /\ tokens[h[p].id].Token = TokG
        /\ tokens[h[p].id].ExpiresAt = Some(now + 1)
        /\ RefreshDue(h[p].id)

\* C5: a LOGIN resolution without a usable cache hit whose declaration
\* carries a non-empty token returns that token without sending a request
\* and, with caching enabled, stores it under the service id with TTL
\* bookkeeping; with caching disabled the cache is untouched.
C5_DeclaredToken ==
    [][\A p \in Requests :
        /\ (/\ Enters(p)
            /\ h'[p].authType = "LOGIN"
            /\ ~NoDeclared(h'[p].declared)
            /\ ~(config.CacheEnabled /\ FreshEntry(h'[p].id)))
           => /\ tokens' = tokens
              /\ ~h'[p].sent
              /\ IF config.CacheEnabled THEN h'[p].pc = "set_declared"
                 ELSE /\ h'[p].pc = "done"
                      /\ h'[p].ret = Some(Ok(Deref(h'[p].declared)))
        /\ (h[p].pc = "set_declared" /\ h'[p] # h[p])
           => /\ h'[p].pc = "done"
              /\ ~h'[p].sent
              /\ h'[p].ret = Some(Ok(Deref(h[p].declared)))
              /\ HasEntry(h[p].id)'
              /\ Bookkept(tokens'[h[p].id], Deref(h[p].declared), h[p].ttl)]_vars

\* The declared token returned and cached with tokenTtl 2 and buffer 1.
C5_Witness ==
    \E p \in Requests :
        /\ h[p].pc = "done" /\ h[p].authType = "LOGIN" /\ ~h[p].sent
        /\ config.CacheEnabled /\ config.TokenRefreshBuffer = 1
        /\ now >= 1
        /\ h[p].declared = Some(TokD)
        /\ h[p].ret = Some(Ok(TokD))
        /\ HasEntry(h[p].id)
        /\ tokens[h[p].id] = CachedToken(TokD, Some(now + 2), Some(now + 1))

\* C6: a LOGIN resolution that completes with an error leaves every cache
\* entry as it was.
C6_FailureKeepsCache ==
    [][\A p \in Requests :
        (/\ Completes(p)
         /\ h'[p].authType = "LOGIN"
         /\ Returned(p)'.err # Nil)
        => tokens' = tokens]_vars

\* A refresh that failed after its request was sent, with the entry it was
\* to replace still in the cache.
C6_Witness ==
    \E p \in Requests :
        /\ h[p].pc = "done" /\ h[p].authType = "LOGIN" /\ h[p].sent
        /\ config.CacheEnabled
        /\ Returned(p).err = Some("failed to extract token")
        /\ HasEntry(h[p].id)
        /\ RefreshDue(h[p].id)

\* C7: every resolution that returns does so with a complete token or with
\* an error and the empty token; a LOGIN, BASIC or APITOKEN resolution that
\* succeeds returns a non-empty token; a LOGIN refresh that fails while an
\* unexpired entry is in its refresh window returns the error, not the entry.
C7_NoPartialToken ==
    \A p \in Requests :
        h[p].pc = "done" =>
            /\ Returned(p).err # Nil => Returned(p).token = <<>>
            /\ (Returned(p).err = Nil
                /\ h[p].authType \in {"LOGIN", "BASIC", "APITOKEN"})
               => Returned(p).token # <<>>

\* A refresh failed on a non-2xx status while the unexpired entry was in its
\* refresh window.
C7_Witness ==
    \E p \in Requests :
        /\ h[p].pc = "done" /\ h[p].authType = "LOGIN" /\ h[p].sent
        /\ config.CacheEnabled
        /\ Returned(p).err = Some("authentication endpoint returned status")
        /\ Returned(p).token = <<>>
        /\ StaleEntry(h[p].id)

\* ---- two concurrent resolutions for one service identifier
\*
\* Two ServeHTTP goroutines of one middleware instance call GetAuthToken for
\* the instance's service id. The cache check and the cache write of each
\* are single steps: TokenCache.Get and TokenCache.Set run under the mutex
\* (SpecLock), and Set assigns the entry as one map assignment.

Racers == {"r1", "r2"}

\* Well-formed REST logins without a pre-populated token: with no ttl and
\* with the longest one.
RaceDeclarations ==
    {Some(Login("REST", LoginPairs, Nil, LocAB, ttl,
                Some(<<RestNode(GoodEndpoint)>>))) :
        ttl \in {Nil, Some(MaxTtl)}}

InitRace ==
    /\ now = 0
    /\ tokens = EmptyCache
    /\ got = Nil
    /\ lastSet = Nil
    /\ mu = Nil
    /\ cl = Nil
    /\ config \in Configs
    /\ h = [p \in Racers |-> NoCall]

RaceResolve == \E p \in Racers, id \in InstanceIds, c \in RaceDeclarations :
                   GetAuthToken(p, id, c)
RaceAnswer == \E p \in Racers :
                  /\ h[p].pc = "calling"
                  /\ \E outcome \in Outcomes(h[p]) : Respond(p, outcome)
RaceFinish == \E p \in Racers : Return(p)

NextRace == TickHandler \/ RaceResolve \/ RaceAnswer \/ RaceFinish

SpecRace == InitRace /\ [][NextRace]_vars

\* C11: two concurrent LOGIN resolutions for one service id. A resolution
\* that finds no usable entry sends its request whatever the other
\* resolution is doing (no single-flight suppression); each successful one
\* writes the whole entry, token and times, from its own token and tokenTtl
\* at the time of its write; and no other step changes the cache. So the
\* entry is always what the last write made it, never a mixture of two.
C11_LastWriterWins ==
    [][\A p \in Racers :
        /\ (Enters(p) /\ ~(config.CacheEnabled /\ FreshEntry(h'[p].id)))
           => h'[p].pc = "calling" /\ h'[p].sent /\ tokens' = tokens
        /\ (h[p].pc = "calling" /\ h'[p].pc = "done")
           => IF config.CacheEnabled /\ Returned(p)'.err = Nil
              THEN /\ DOMAIN tokens' = {h[p].id}
                   /\ Bookkept(tokens'[h[p].id], Returned(p)'.token, h[p].ttl)
              ELSE tokens' = tokens
        /\ (h'[p] = h[p] /\ \A q \in Racers : ~(h[q].pc = "calling" /\ h'[q].pc = "done"))
           => tokens' = tokens]_vars

\* Both resolutions sent their request and obtained different tokens, and
\* the entry is the second one's. Every entry written at time 0 with a
\* refresh buffer below the ttl is a hit at time 0, so the second resolution
\* sent its request only because it missed before the first one wrote.
C11_Witness ==
    /\ config.CacheEnabled
    /\ config.TokenRefreshBuffer < MaxTtl
    /\ now = 0
    /\ DOMAIN h = Racers
    /\ h["r1"].pc = "done" /\ h["r1"].sent /\ h["r1"].ret = Some(Ok(TokF))
    /\ h["r2"].pc = "done" /\ h["r2"].sent /\ h["r2"].ret = Some(Ok(TokG))
    /\ "svc1" \in DOMAIN tokens
    /\ tokens["svc1"] = CachedToken(TokG, Some(MaxTtl), Some(MaxTtl - config.TokenRefreshBuffer))

\* ---- the pure functions applied to enumerated inputs
\*
\* `got` holds the last application: the function, its input and its result.

Applied(fn, in, out) == Some([fn |-> fn, in |-> in, out |-> out])

InitPure ==
    /\ now = 0
    /\ tokens = EmptyCache
    /\ got = Nil
    /\ lastSet = Nil
    /\ mu = Nil
    /\ cl = Nil
    /\ config = Nil
    /\ h = Nil

\* credentialData of BASIC declarations: up to MaxPairs pairs with keys of
\* both buckets and a foreign key, and values that may be empty.
BasicKeys == {KeyUsername, KeyUser, KeyPassword, KeyPass, <<"x">>}
BasicValues == {<<>>, <<"a">>, <<"b">>}
BasicPairSet == {Pair(k, v) : k \in BasicKeys, v \in BasicValues}
BasicDatas == UNION {[1..n -> BasicPairSet] : n \in 0..MaxPairs}

Basic(data) == Credentials("BASIC", "", data, Nil, <<>>, Nil, <<>>, Nil)

ApplyBasicAuth ==
    /\ got = Nil
    /\ \E data \in BasicDatas :
          got' = Applied("handleBasicAuth", Basic(data), handleBasicAuth(Basic(data)))
    /\ UNCHANGED <<now, tokens, lastSet, lockVars, handlerVars>>

\* The caller is done with the result.
Forget ==
    /\ got # Nil
    /\ got' = Nil
    /\ UNCHANGED <<now, tokens, lastSet, lockVars, handlerVars>>

\* credentialData of request bodies: up to MaxPairs pairs whose keys are
\* paths of one to three segments, some a prefix of another, and the empty
\* path.
NestedKeys ==
    {<<"a">>, <<"a", ".", "b">>, <<"a", ".", "b", ".", "x">>, <<"b">>, <<>>}
NestedValues == {<<"x">>, <<"y">>}
NestedPairSet == {Pair(k, v) : k \in NestedKeys, v \in NestedValues}
NestedDatas == UNION {[1..n -> NestedPairSet] : n \in 0..MaxPairs}

ApplyBuildNestedObject ==
    /\ got = Nil
    /\ \E data \in NestedDatas :
          got' = Applied("BuildNestedObject", data, BuildNestedObject(data))
    /\ UNCHANGED <<now, tokens, lastSet, lockVars, handlerVars>>

\* The documents and paths ExtractTokenFromResponse is applied to: objects
\* of up to three levels holding strings, empty strings, numbers and
\* arrays, documents that are no object, and a body that is no JSON.
ExtractBodies ==
    LET leaves ==
            {JString(<<>>), JString(TokF), JNumber,
             JArray(<<JObject(Put(EmptyMap, <<"b">>, JString(TokF)))>>)}
        inner ==
            {JObject(EmptyMap)} \cup
            {JObject(Put(EmptyMap, <<"b">>, v)) :
                v \in leaves \cup
                      {JObject(EmptyMap),
                       JObject(Put(EmptyMap, <<"x">>, JString(TokG)))}}
        maps ==
            {EmptyMap} \cup
            {Put(EmptyMap, <<"a">>, v) : v \in leaves \cup inner} \cup
            {Put(EmptyMap, <<"b">>, w) : w \in leaves} \cup
            {Put(Put(EmptyMap, <<"a">>, v), <<"b">>, w) :
                v \in leaves \cup inner, w \in leaves}
    IN  {NotJSON} \cup {JSONBody(v) : v \in leaves}
                  \cup {JSONBody(JObject(m)) : m \in maps}

ExtractLocations ==
    {<<>>, <<"a">>, <<"b">>, <<"x">>, LocAB, <<"a", ".", "b", ".", "x">>,
     <<"a", ".">>, <<"a", ".", "0">>, <<"a", ".", "0", ".", "b">>}

ApplyExtractToken ==
    /\ got = Nil
    /\ \E responseBody \in ExtractBodies, tokenLocation \in ExtractLocations :
           got' = Applied("ExtractTokenFromResponse",
                          [body |-> responseBody, loc |-> tokenLocation],
                          ExtractTokenFromResponse(responseBody, tokenLocation))
    /\ UNCHANGED <<now, tokens, lastSet, lockVars, handlerVars>>

NextPure ==
    ApplyBasicAuth \/ ApplyBuildNestedObject \/ ApplyExtractToken \/ Forget

SpecPure == InitPure /\ [][NextPure]_vars

\* The pairs of credentialData whose key is in a bucket, in order.
InBucket(data, keys) == SelectSeq(data, LAMBDA pair : pair.Key \in keys)
UsernameBucket == {KeyUsername, KeyUser}
PasswordBucket == {KeyPassword, KeyPass}

\* C13: BASIC returns "Basic " + base64(username + ":" + password) where
\* username is the value of the first pair with key "username" or "user" and
\* password the value of the first pair with key "password" or "pass"
\* (stated for declarations whose username and password values are all
\* non-empty).
C13_FirstMatchWins ==
    (got # Nil /\ Deref(got).fn = "handleBasicAuth") =>
        LET us == InBucket(Deref(got).in.CredentialData, UsernameBucket)
            ps == InBucket(Deref(got).in.CredentialData, PasswordBucket)
        IN  (/\ us # <<>> /\ ps # <<>>
             /\ \A i \in 1..Len(us) : us[i].Value # <<>>
             /\ \A i \in 1..Len(ps) : ps[i].Value # <<>>)
            => Deref(got).out =
                 Ok(BasicPrefix
                    \o EncodeToString(Bytes(us[1].Value \o <<":">> \o ps[1].Value)))

\* C14: BASIC fails, with an error and the empty token, whenever
\* credentialData has no pair of the username bucket or no pair of the
\* password bucket.
C14_BasicNeedsBoth ==
    (got # Nil /\ Deref(got).fn = "handleBasicAuth") =>
        LET us == InBucket(Deref(got).in.CredentialData, UsernameBucket)
            ps == InBucket(Deref(got).in.CredentialData, PasswordBucket)
        IN  (us = <<>> \/ ps = <<>>)
            => Deref(got).out.err # Nil /\ Deref(got).out.token = <<>>

\* A username is declared, with a foreign pair, but no password: BASIC failed.
C14_Witness ==
    /\ got # Nil /\ Deref(got).fn = "handleBasicAuth"
    /\ Deref(got).in.CredentialData
         = <<Pair(KeyUser, <<"a">>), Pair(<<"x">>, <<"b">>)>>
    /\ Deref(got).out.err # Nil

\* ---- resolutions with the declaration on record
\*
\* The handler as in Spec, with the declaration a resolution was called with
\* kept in its record until the response to its request arrives.

\* Declarations of the other auth types with every other field varied, auth
\* types the dispatch does not know, and unknown endpoint types with a
\* pre-populated token.
VariedDeclarations ==
    {Credentials(t, et, LoginPairs, tok, LocAB, Some(1), key, ed) :
        t \in {"NONE", "APITOKEN", "OAUTH", "basic", ""},
        et \in {"", "REST"}, tok \in {Nil, Some(TokD)},
        key \in {<<>>, <<"k">>},
        ed \in {Nil, Some(<<RestNode(GoodEndpoint)>>)}}
    \cup {Login(et, LoginPairs, Some(TokD), LocAB, Some(1), ed) :
            et \in {"SOAP", "rest", ""}, ed \in EndpointDatas}

DeclDeclarations ==
    Declarations \cup {Some(c) : c \in VariedDeclarations}

\* The state of a resolution with the declaration it was called with.
Observed(call, credentials) == call @@ [creds |-> credentials]
Unobserved(call) == [f \in DOMAIN call \ {"creds"} |-> call[f]]

ResolveDecl ==
    \E p \in Requests, id \in InstanceIds, c \in DeclDeclarations :
        /\ h[p].pc = "idle"
        /\ h' = [h EXCEPT ![p] = Observed(Dispatch(id, c), c)]
        /\ UNCHANGED <<cacheVars, lockVars, config>>

\* Respond, with the declaration dropped from the record.
AnswerDecl ==
    \E p \in Requests :
        /\ h[p].pc = "calling"
        /\ \E outcome \in Outcomes(h[p]) :
              LET result == LoginResult(h[p], outcome) IN
              /\ tokens' = CacheAfterLogin(h[p], result)
              /\ h' = [h EXCEPT ![p] = Done(Unobserved(h[p]), result)]
        /\ UNCHANGED <<now, got, lastSet, lockVars, config>>

NextDecl == TickHandler \/ ResolveDecl \/ Store \/ AnswerDecl \/ Finish

SpecDecl == Init /\ [][NextDecl]_vars

\* The declaration on record of a resolution.
Declared(p) == Deref(h[p].creds)

\* C15: APITOKEN returns the declared apiKey unchanged when it is not empty
\* and fails with an error when it is; it sends no request (and leaves the
\* cache alone).
C15_ApiToken ==
    [][\A p \in Requests :
        (Enters(p) /\ h'[p].authType = "APITOKEN")
        => /\ h'[p].pc = "done"
           /\ ~h'[p].sent
           /\ tokens' = tokens
           /\ IF Declared(p)'.ApiKey # <<>>
              THEN Returned(p)' = Ok(Declared(p)'.ApiKey)
              ELSE Returned(p)'.err # Nil /\ Returned(p)'.token = <<>>]_vars

\* The apiKey returned although the declaration also has a token and an
\* endpoint.
C15_Witness ==
    \E p \in Requests :
        /\ h[p].pc = "done" /\ h[p].authType = "APITOKEN" /\ ~h[p].sent
        /\ Declared(p).ApiKey = <<"k">>
        /\ Declared(p).Token = Some(TokD)
        /\ Declared(p).EndpointData # Nil
        /\ Returned(p) = Ok(<<"k">>)

\* C16: for authType NONE GetAuthToken returns the empty token with no
\* error, sends no request and leaves the cache as it is, whatever the cache
\* holds and whatever else is declared.
C16_NoneIsEmpty ==
    [][\A p \in Requests :
        (Enters(p) /\ h'[p].authType = "NONE")
        => /\ h'[p].pc = "done"
           /\ Returned(p)' = Ok(<<>>)
           /\ ~h'[p].sent
           /\ tokens' = tokens]_vars

\* NONE resolved to the empty token while the cache holds a usable entry for
\* the service and the declaration has a token and an endpoint.
C16_Witness ==
    \E p \in Requests :
        /\ h[p].pc = "done" /\ h[p].authType = "NONE" /\ ~h[p].sent
        /\ config.CacheEnabled
        /\ FreshEntry(h[p].id)
        /\ Declared(p).Token = Some(TokD)
        /\ Declared(p).EndpointData # Nil
        /\ Returned(p) = Ok(<<>>)

KnownAuthTypes == {"BASIC", "LOGIN", "APITOKEN", "NONE"}
KnownEndpointTypes == {"REST", "GRAPHQL"}

\* C17: a resolution whose declaration has an authType other than BASIC,
\* LOGIN, APITOKEN and NONE, or has authType LOGIN and an endpointType other
\* than REST and GRAPHQL, ends with an error and no token.
C17_UnknownIsError ==
    \A p \in Requests :
        (/\ h[p].pc = "done"
         /\ "creds" \in DOMAIN h[p]
         /\ h[p].creds # Nil
         /\ \/ Declared(p).AuthType \notin KnownAuthTypes
            \/ /\ Declared(p).AuthType = "LOGIN"
               /\ Declared(p).EndpointType \notin KnownEndpointTypes)
        => Returned(p).err # Nil /\ Returned(p).token = <<>>

\* C17, amended: an authType other than BASIC, LOGIN, APITOKEN and NONE
\* always yields the "unsupported auth type" error and no token. For LOGIN,
\* an endpointType other than REST and GRAPHQL never leads to a request; it
\* yields an error and no token when the resolution has neither a cache hit
\* nor a pre-populated token (with either of these the endpointType is not
\* examined and the token is returned).
C17_UnknownRejected ==
    [][\A p \in Requests :
        (Enters(p) /\ h'[p].creds # Nil)
        => /\ Declared(p)'.AuthType \notin KnownAuthTypes
              => /\ h'[p].pc = "done"
                 /\ Returned(p)' = Fail("unsupported auth type")
                 /\ ~h'[p].sent
                 /\ tokens' = tokens
           /\ (/\ Declared(p)'.AuthType = "LOGIN"
               /\ Declared(p)'.EndpointType \notin KnownEndpointTypes)
              => /\ h'[p].pc # "calling"
                 /\ ~h'[p].sent
                 /\ tokens' = tokens
                 /\ (/\ ~(config.CacheEnabled /\ FreshEntry(h'[p].id))
                     /\ NoDeclared(Declared(p)'.Token))
                    => /\ h'[p].pc = "done"
                       /\ Returned(p)'.token = <<>>
                       /\ Returned(p)'.err \in
                            {Some("no authentication endpoint configured"),
                             Some("invalid endpoint configuration")}]_vars

\* A LOGIN with endpointType SOAP and a REST endpoint has been rejected.
C17_Witness ==
    \E p \in Requests :
        /\ h[p].pc = "done" /\ ~h[p].sent
        /\ h[p].creds # Nil
        /\ Declared(p).AuthType = "LOGIN"
        /\ Declared(p).EndpointType = "SOAP"
        /\ Declared(p).EndpointData = Some(<<RestNode(GoodEndpoint)>>)
        /\ Returned(p) = Fail("invalid endpoint configuration")

\* The endpoint of a LOGIN declaration is absent, or not of the kind its
\* endpointType names.
NoConsistentEndpoint(c) ==
    \/ c.EndpointData = Nil
    \/ Len(Deref(c.EndpointData)) = 0
    \/ LET node == Deref(c.EndpointData)[1] IN
       \/ c.EndpointType = "REST" /\ node.EndpointType = Nil
       \/ c.EndpointType = "GRAPHQL" /\ node.GqlOperationType = Nil

\* C18: a LOGIN resolution without a cache hit and without a pre-populated
\* token whose endpoint is absent or not of the kind endpointType names
\* fails with an error, sending no request and writing nothing to the cache.
C18_EndpointMustMatch ==
    [][\A p \in Requests :
        (/\ Enters(p)
         /\ h'[p].authType = "LOGIN"
         /\ ~(config.CacheEnabled /\ FreshEntry(h'[p].id))
         /\ NoDeclared(Declared(p)'.Token)
         /\ NoConsistentEndpoint(Declared(p)'))
        => /\ h'[p].pc = "done"
           /\ Returned(p)'.err # Nil
           /\ Returned(p)'.token = <<>>
           /\ ~h'[p].sent
           /\ tokens' = tokens]_vars

\* A GRAPHQL login declared with a REST endpoint has failed without a
\* request, the cache still holding the entry that was due for refresh.
C18_Witness ==
    \E p \in Requests :
        /\ h[p].pc = "done" /\ h[p].authType = "LOGIN" /\ ~h[p].sent
        /\ config.CacheEnabled
        /\ Declared(p).EndpointType = "GRAPHQL"
        /\ Declared(p).EndpointData = Some(<<RestNode(GoodEndpoint)>>)
        /\ Returned(p).err = Some("invalid endpoint configuration")
        /\ StaleEntry(h[p].id)

ProperPrefix(p, q) == Len(p) < Len(q) /\ SubSeq(q, 1, Len(p)) = p

\* C20: BuildNestedObject fails, returning no object, whenever the path of
\* an earlier pair, which that pair binds to its string value, is a proper
\* prefix of the path of a later pair, so that a non-terminal segment of the
\* later pair stands on a string; the earlier binding is never replaced.
C20_PathConflict ==
    (got # Nil /\ Deref(got).fn = "BuildNestedObject") =>
        LET data == Deref(got).in IN
        (\E i, j \in 1..Len(data) :
            /\ i < j
            /\ ProperPrefix(Split(data[i].Key, "."), Split(data[j].Key, ".")))
        => Deref(got).out.err /\ Deref(got).out.obj = Nil

\* The pairs ("a", "x") then ("a.b", "y") have been refused.
C20_Witness ==
    /\ got # Nil /\ Deref(got).fn = "BuildNestedObject"
    /\ Deref(got).in = ConflictPairs
    /\ Deref(got).out.err
    /\ Deref(got).out.obj = Nil

\* The lists with the elements of `data` in another order.
Reorderings(data) ==
    {[i \in 1..Len(data) |-> data[f[i]]] :
        f \in {g \in [1..Len(data) -> 1..Len(data)] :
                 \A i, j \in 1..Len(data) : g[i] = g[j] => i = j}}

\* C21: the order of the pairs given to BuildNestedObject is insignificant
\* except for conflict detection: for every permutation of the list, both
\* builds succeed with equal trees or both fail.
C21_OrderInsignificant ==
    (got # Nil /\ Deref(got).fn = "BuildNestedObject") =>
        \A other \in Reorderings(Deref(got).in) :
            LET r == BuildNestedObject(other) IN
            \/ ~Deref(got).out.err /\ ~r.err /\ r.obj = Deref(got).out.obj
            \/ Deref(got).out.err /\ r.err

\* C22: BuildNestedObject returns an error for every list that has a pair
\* whose key is the empty string.
C22_EmptyKeyIsError ==
    (got # Nil /\ Deref(got).fn = "BuildNestedObject") =>
        ((\E i \in 1..Len(Deref(got).in) : Deref(got).in[i].Key = <<>>)
         => Deref(got).out.err)

\* The value the walk along `parts` reaches in the tree `fields`, if any.
RECURSIVE LeafAt(_, _)
LeafAt(fields, parts) ==
    IF parts = <<>> \/ Head(parts) \notin DOMAIN fields THEN Nil
    ELSE IF Len(parts) = 1 THEN Some(fields[Head(parts)])
    ELSE IF fields[Head(parts)].kind # "object" THEN Nil
    ELSE LeafAt(fields[Head(parts)].fields, Tail(parts))

\* The paths of the tree `fields` that end at a value that is no object.
RECURSIVE LeafPaths(_)
LeafPaths(fields) ==
    UNION {IF fields[k].kind = "object"
           THEN {<<k>> \o p : p \in LeafPaths(fields[k].fields)}
           ELSE {<<k>>} : k \in DOMAIN fields}

\* The pairs' keys have pairwise different first segments.
DisjointPrefixes(data) ==
    \A i, j \in 1..Len(data) :
        Head(Split(data[i].Key, ".")) = Head(Split(data[j].Key, ".")) => i = j

\* C23: for pairs with pairwise disjoint top-level key prefixes
\* BuildNestedObject succeeds, the walk along each pair's dotted key ends at
\* a string leaf equal to the pair's value, and the tree has no other leaf.
C23_RoundTrip ==
    (/\ got # Nil
     /\ Deref(got).fn = "BuildNestedObject"
     /\ DisjointPrefixes(Deref(got).in)) =>
        LET data == Deref(got).in
            out == Deref(got).out
        IN  /\ ~out.err
            /\ \A i \in 1..Len(data) :
                   LeafAt(Deref(out.obj), Split(data[i].Key, ".")) =
                       Some(JString(data[i].Value))
            /\ LeafPaths(Deref(out.obj)) =
                   {Split(data[i].Key, ".") : i \in 1..Len(data)}

C23_Witness ==
    /\ got # Nil
    /\ Deref(got).fn = "BuildNestedObject"
    /\ DisjointPrefixes(Deref(got).in)
    /\ Len(Deref(got).in) >= 2
    /\ \E i \in 1..Len(Deref(got).in) :
           Len(Split(Deref(got).in[i].Key, ".")) = 3
    /\ ~Deref(got).out.err

\* The walk of the path through nested objects of the document ends at a
\* string that is not empty.
EndsAtToken(document, path) ==
    /\ path # <<>>
    /\ document.kind = "object"
    /\ LeafAt(document.fields, Split(path, ".")) # Nil
    /\ Deref(LeafAt(document.fields, Split(path, "."))).kind = "string"
    /\ Deref(LeafAt(document.fields, Split(path, "."))).str # <<>>

\* C24: ExtractTokenFromResponse(document, path) returns s without error
\* exactly when the path is not empty and the walk of its segments through
\* nested objects ends at the non-empty string s; in every other case
\* (empty path, absent segment, a value on the way that is no object,
\* a terminal value that is no string or is the empty string) it returns
\* an error.
C24_ExtractExactly ==
    (/\ got # Nil
     /\ Deref(got).fn = "ExtractTokenFromResponse"
     /\ Deref(got).in.body.valid) =>
        LET document == Deref(got).in.body.value
            path == Deref(got).in.loc
        IN  IF EndsAtToken(document, path)
            THEN Deref(got).out =
                     TokenResult(Deref(LeafAt(document.fields,
                                              Split(path, "."))).str)
            ELSE Deref(got).out.err

C24_Witness ==
    /\ got # Nil
    /\ Deref(got).fn = "ExtractTokenFromResponse"
    /\ Deref(got).in.body.valid
    /\ Deref(got).in.loc = <<"a", ".", "b", ".", "x">>
    /\ Deref(got).out = TokenResult(TokG)

\* ---------------------------------------------------------- middleware.go
\* ServeHTTP around GetAuthToken: the instance is fetched, the token is
\* resolved, the Authorization header and the instance's headers are set
\* and the request is forwarded, or an error response is written.  What
\* ServeHTTP has done to the request and the response writer is kept in the
\* field srv of the request's record.

StatusInternalServerError == 500
StatusUnauthorized == 401

BearerPrefix == <<"B", "e", "a", "r", "e", "r", " ">>

\* Tokens longer than the prefix, with and without it, and the prefix alone.
ServeTokens ==
    {BearerPrefix, BearerPrefix \o TokF,
     <<"a", "b", "a", "b", "a", "b", "a", "b">>}

\* What FetchInstanceById returns: no instance (an error), or an instance
\* with or without credentials and with or without headers of its own.
ServeInstances ==
    LET declarations ==
            Declarations
            \cup {Some(Login("REST", LoginPairs, Some(tok), LocAB,
                             Some(MaxTtl), Nil)) : tok \in ServeTokens}
            \cup {Some(Credentials("APITOKEN", "", <<>>, Nil, <<>>, Nil,
                                   tok, Nil)) : tok \in ServeTokens}
        headers ==
            {<<>>, <<[Key |-> "X-Env", Value |-> <<"x">>],
                     [Key |-> "Authorization", Value |-> <<"y">>]>>}
    IN  {Nil} \cup {Some([Credentials |-> c, Headers |-> hs]) :
                       c \in declarations, hs \in headers}

\* The request's record while ServeHTTP runs.
Serving(call, custom) ==
    call @@ [srv |-> [custom |-> custom, forwards |-> 0, status |-> Nil,
                      auth |-> Nil, headers |-> EmptyMap]]

\* middleware.go:68-72 and 84-88: http.Error and return.
Rejected(call, status) ==
    [call EXCEPT !.pc = "served", !.srv.status = Some(status)]

\* middleware.go:78 and 117: t.next.ServeHTTP(rw, req).
Forwarded(call) ==
    [call EXCEPT !.pc = "served", !.srv.forwards = call.srv.forwards + 1]

\* middleware.go:97-102: the value of the Authorization header.
HeaderValue(authType, token) ==
    IF authType # "BASIC" /\ authType # "APITOKEN"
    THEN IF Len(token) > 7 /\ SubSeq(token, 1, 7) # BearerPrefix
         THEN BearerPrefix \o token
         ELSE token
    ELSE token

\* middleware.go:109-114: req.Header.Set for each header of the instance.
SetHeaders(headers, custom) ==
    [k \in DOMAIN headers \cup {custom[i].Key : i \in 1..Len(custom)} |->
        IF \E i \in 1..Len(custom) : custom[i].Key = k
        THEN custom[CHOOSE i \in 1..Len(custom) :
                        /\ custom[i].Key = k
                        /\ \A j \in i + 1..Len(custom) : custom[j].Key # k].Value
        ELSE headers[k]]

\* middleware.go:84-117 with a rejected request forwarded all the same.
AfterTokenFallThrough(call) ==
    LET result == Deref(call.ret) IN
    IF result.err # Nil
    THEN Forwarded(Rejected(call, StatusUnauthorized))
    ELSE Forwarded([call EXCEPT !.srv.headers =
                        SetHeaders(call.srv.headers, call.srv.custom)])

\* middleware.go:84-117: what ServeHTTP does with GetAuthToken's result.
AfterToken(call) ==
    LET result == Deref(call.ret)
        value == HeaderValue(call.authType, result.token)
        injected ==
            IF result.token # <<>>
            THEN [call EXCEPT !.srv.auth = Some(value),
                              !.srv.headers = Put(call.srv.headers,
                                                  "Authorization", value)]
            ELSE call
    IN  IF result.err # Nil
        THEN Rejected(call, StatusUnauthorized)
        ELSE Forwarded([injected EXCEPT !.srv.headers =
                            SetHeaders(injected.srv.headers,
                                       injected.srv.custom)])

\* middleware.go:65-83: the instance has been fetched; ServeHTTP answers at
\* once or calls GetAuthToken, which runs to its return or first wait.
ServeHTTP ==
    \E p \in Requests, id \in InstanceIds, instance \in ServeInstances :
        /\ h[p].pc = "idle"
        /\ h' = [h EXCEPT ![p] =
                   IF instance = Nil
                   THEN Rejected(Serving(NoCall, <<>>),
                                 StatusInternalServerError)
                   ELSE IF Deref(instance).Credentials = Nil
                   THEN Forwarded(Serving(NoCall, Deref(instance).Headers))
                   ELSE Serving(Dispatch(id, Deref(instance).Credentials),
                                Deref(instance).Headers)]
        /\ UNCHANGED <<cacheVars, lockVars, config>>

\* middleware.go:83-118: GetAuthToken has returned.
ServeToken ==
    \E p \in Requests :
        /\ h[p].pc = "done"
        /\ h' = [h EXCEPT ![p] = AfterToken(h[p])]
        /\ UNCHANGED <<cacheVars, lockVars, config>>

\* ServeHTTP has returned.
ServeReturn ==
    \E p \in Requests :
        /\ h[p].pc = "served"
        /\ h' = [h EXCEPT ![p] = NoCall]
        /\ UNCHANGED <<cacheVars, lockVars, config>>

NextServe ==
    TickHandler \/ ServeHTTP \/ Store \/ Answer \/ ServeToken \/ ServeReturn

SpecServe == Init /\ [][NextServe]_vars

\* ServeHTTP has finished with the request of p.
Served(p) == h[p].pc = "served"

\* C25: for every inbound request ServeHTTP either forwards the request to
\* the next handler exactly once, or writes an error response and does not
\* forward it; when GetAuthToken returns an error the request is rejected,
\* never reaches the next handler and no Authorization header is injected.
C25_ForwardOrReject ==
    \A p \in Requests :
        /\ Served(p) =>
              \/ h[p].srv.forwards = 1 /\ h[p].srv.status = Nil
              \/ h[p].srv.forwards = 0 /\ h[p].srv.status # Nil
        /\ (Served(p) /\ h[p].ret # Nil /\ Deref(h[p].ret).err # Nil) =>
              /\ h[p].srv.forwards = 0
              /\ h[p].srv.status = Some(StatusUnauthorized)
              /\ "Authorization" \notin DOMAIN h[p].srv.headers
        /\ ("srv" \in DOMAIN h[p] /\ ~Served(p)) =>
              /\ h[p].srv.forwards = 0
              /\ h[p].srv.status = Nil
              /\ h[p].srv.headers = EmptyMap

C25_Witness ==
    \E p \in Requests :
        /\ Served(p)
        /\ h[p].ret # Nil
        /\ Deref(h[p].ret).err # Nil
        /\ h[p].sent
        /\ h[p].srv.custom # <<>>

\* C26: for LOGIN and a resolved token that is not empty, the injected
\* Authorization header is the token itself when it starts with "Bearer "
\* and "Bearer " followed by the token otherwise, for tokens of every
\* length; BASIC and APITOKEN tokens are injected unchanged.
C26_BearerPrefix ==
    \A p \in Requests :
        (/\ Served(p)
         /\ h[p].ret # Nil
         /\ Deref(h[p].ret).err = Nil
         /\ Deref(h[p].ret).token # <<>>) =>
            LET token == Deref(h[p].ret).token IN
            /\ h[p].srv.auth # Nil
            /\ h[p].authType = "LOGIN" =>
                  Deref(h[p].srv.auth) =
                      IF /\ Len(token) >= Len(BearerPrefix)
                         /\ SubSeq(token, 1, Len(BearerPrefix)) = BearerPrefix
                      THEN token
                      ELSE BearerPrefix \o token
            /\ h[p].authType \in {"BASIC", "APITOKEN"} =>
                  Deref(h[p].srv.auth) = token

\* The place of a Get result in the life of an entry: fresh, needing
\* refresh, gone.
Phase(r) == IF ~r.exists THEN 2 ELSE IF r.needsRefresh THEN 1 ELSE 0

\* C27: while the clock does not go back and no Set, Delete or Clear
\* touches the entry of id, the results of Get(id) only move forward from
\* fresh to needing refresh to not existing, never back.
C27_LifecycleForward ==
    [][\A id \in EntryIds, b \in SetBuffers :
          (/\ id \in DOMAIN tokens
           /\ tokens' = tokens
           /\ now' >= now) =>
              Phase(CacheGet(tokens', now', id, b)) >=
                  Phase(CacheGet(tokens, now, id, b))]_vars

\* C27's case: an entry that was fresh when set, needed refresh later and is
\* now reported as not existing, with no write in between.
C27_Witness ==
    \E id \in EntryIds :
        /\ id \in DOMAIN tokens
        /\ lastSet[id] # Nil
        /\ tokens[id].RefreshAt # Nil
        /\ Deref(lastSet[id]).at < Deref(tokens[id].RefreshAt)
        /\ Deref(tokens[id].RefreshAt) < Deref(tokens[id].ExpiresAt)
        /\ got = Some([id |-> id] @@ Missing)

C28_OnlyLoginWrites ==
    [][/\ tokens' # tokens =>
            \E p \in Requests :
                /\ config.CacheEnabled
                /\ h[p].authType = "LOGIN"
                /\ h[p].pc \in {"set_declared", "calling"}
                /\ Completes(p)
                /\ Returned(p)' .err = Nil
                /\ tokens' = CacheSet(tokens, now, h[p].id, Returned(p)'.token,
                                      h[p].ttl, config.TokenRefreshBuffer)
       /\ \A p \in Requests :
            /\ Enters(p) => tokens' = tokens
            /\ (Enters(p) /\ h'[p].authType = "LOGIN" /\ ~config.CacheEnabled
                /\ h'[p].pc = "done" /\ Returned(p)'.err = Nil) =>
                   /\ ~NoDeclared(h'[p].declared)
                   /\ Returned(p)'.token = Deref(h'[p].declared)
       /\ ~config.CacheEnabled => tokens' = EmptyCache]_vars

\* C28's case: a BASIC resolution has returned its token while the cache
\* holds the entry an earlier LOGIN resolution wrote.
C28_Witness ==
    \E p \in Requests :
        /\ h[p].pc = "done"
        /\ h[p].authType = "BASIC"
        /\ Returned(p).err = Nil
        /\ tokens # EmptyCache

\* ------------------------------------------- a service with a declared token
\* The handler serving one service whose LOGIN declaration carries the
\* pre-populated token TokD, with every ttl and every endpoint.

DeclaredLogins ==
    {Some(Login(et, LoginPairs, Some(TokD), LocAB, ttl, ed)) :
        et \in {"REST", "GRAPHQL"}, ttl \in Ttls, ed \in EndpointDatas}

ResolveDeclared ==
    \E p \in Requests, id \in InstanceIds, c \in DeclaredLogins :
        GetAuthToken(p, id, c)

NextDeclared == TickHandler \/ ResolveDeclared \/ Store \/ Finish

SpecDeclared == Init /\ [][NextDeclared]_vars

====
